---- MODULE Spec2Model ----
(***************************************************************************)
(* Range addressing and data extraction engine of agent-xlsx.              *)
(*                                                                         *)
(* Text is modelled as a sequence of one-character strings, so that        *)
(* "A1" is <<"A", "1">>.  Python's None for an optional string is the      *)
(* empty sequence: no matched group of the range grammar is ever empty.    *)
(***************************************************************************)
EXTENDS Integers, Sequences, FiniteSets, TLC

VARIABLES codec, parser, sheet, reader, loader, book, searcher, command, shaper,
          dates, colfilter

vars == <<codec, parser, sheet, reader, loader, book, searcher, command, shaper,
          dates, colfilter>>

None == <<>>

(***************************************************************************)
(* Characters                                                              *)
(***************************************************************************)
UpperLetters ==
    <<"A", "B", "C", "D", "E", "F", "G", "H", "I", "J", "K", "L", "M",
      "N", "O", "P", "Q", "R", "S", "T", "U", "V", "W", "X", "Y", "Z">>

LowerLetters ==
    <<"a", "b", "c", "d", "e", "f", "g", "h", "i", "j", "k", "l", "m",
      "n", "o", "p", "q", "r", "s", "t", "u", "v", "w", "x", "y", "z">>

Digits == {"0", "1", "2", "3", "4", "5", "6", "7", "8", "9"}

IsUpper(c) == \E i \in 1..26 : UpperLetters[i] = c

IsLower(c) == \E i \in 1..26 : LowerLetters[i] = c

IsAlpha(c) == IsUpper(c) \/ IsLower(c)

IsDigit(c) == c \in Digits

IsSpace(c) == c = " "

\* str.upper() on one character
UpperChar(c) ==
    IF IsLower(c)
    THEN UpperLetters[CHOOSE i \in 1..26 : LowerLetters[i] = c]
    ELSE c

\* str.upper()
Upper(s) == [i \in 1..Len(s) |-> UpperChar(s[i])]

\* ord(ch) - ord("A") + 1 for an upper-case letter
LetterValue(c) == CHOOSE i \in 1..26 : UpperLetters[i] = c

(***************************************************************************)
(* ColumnCodec: utils/validation.py                                        *)
(***************************************************************************)
RECURSIVE LetterFold(_, _)
LetterFold(s, result) ==
    IF s = <<>> THEN result
    ELSE LetterFold(Tail(s), result * 26 + LetterValue(Head(s)))

col_letter_to_index(col) == LetterFold(Upper(col), 0) - 1

RECURSIVE IndexLoopNaive(_, _)
IndexLoopNaive(idx, result) ==
    IF idx > 0
    THEN IndexLoopNaive(idx \div 26, <<UpperLetters[(idx % 26) + 1]>> \o result)
    ELSE result

\* a plain base-26 conversion, without the minus-one correction
index_to_col_letter_naive(index) == IndexLoopNaive(index + 1, <<>>)

RECURSIVE IndexLoop(_, _)
IndexLoop(idx, result) ==
    IF idx > 0
    THEN IndexLoop((idx - 1) \div 26,
                   <<UpperLetters[((idx - 1) % 26) + 1]>> \o result)
    ELSE result

index_to_col_letter(index) == IndexLoop(index + 1, <<>>)

(***************************************************************************)
(* AddressParser: utils/validation.py                                      *)
(***************************************************************************)
\* str.replace("\\!", "!"): leftmost, non-overlapping
RECURSIVE _normalise_shell_ref(_)
_normalise_shell_ref(ref) ==
    IF Len(ref) < 2 THEN ref
    ELSE IF ref[1] = "\\" /\ ref[2] = "!"
         THEN <<"!">> \o _normalise_shell_ref(SubSeq(ref, 3, Len(ref)))
         ELSE <<ref[1]>> \o _normalise_shell_ref(Tail(ref))

RECURSIVE LStrip(_)
LStrip(s) == IF s # <<>> /\ IsSpace(Head(s)) THEN LStrip(Tail(s)) ELSE s

RECURSIVE RStrip(_)
RStrip(s) ==
    IF s # <<>> /\ IsSpace(s[Len(s)]) THEN RStrip(SubSeq(s, 1, Len(s) - 1)) ELSE s

\* str.strip()
Strip(s) == RStrip(LStrip(s))

\* [A-Z]{1,3}\d+ under re.IGNORECASE, anchored at both ends of s
MatchesCell(s) ==
    \E k \in 1..3 :
        /\ k < Len(s)
        /\ \A i \in 1..k : IsAlpha(s[i])
        /\ \A i \in (k + 1)..Len(s) : IsDigit(s[i])

\* positions of the ":" that splits s into a start cell and an end cell
ColonSplits(s) ==
    {c \in 1..Len(s) :
        /\ s[c] = ":"
        /\ MatchesCell(SubSeq(s, 1, c - 1))
        /\ MatchesCell(SubSeq(s, c + 1, Len(s)))}

\* (?P<start>...)(?::(?P<end>...))?$ anchored at both ends of s
MatchesCells(s) == MatchesCell(s) \/ ColonSplits(s) # {}

CellGroups(s) ==
    IF MatchesCell(s) THEN [start |-> s, end |-> None]
    ELSE LET c == CHOOSE c \in ColonSplits(s) : TRUE
         IN  [start |-> SubSeq(s, 1, c - 1), end |-> SubSeq(s, c + 1, Len(s))]

\* ends of the (?P<sheet>.+?)! group for which the rest of the pattern matches
SheetSplits(s) ==
    {p \in 2..Len(s) : s[p] = "!" /\ MatchesCells(SubSeq(s, p + 1, Len(s)))}

NoMatch == [ok |-> FALSE, sheet |-> None, start |-> None, end |-> None]

\* _RANGE_RE.match(s): the optional group is tried first, its lazy .+? shortest first
RangeMatch(s) ==
    IF SheetSplits(s) # {}
    THEN LET p == CHOOSE p \in SheetSplits(s) : \A q \in SheetSplits(s) : p <= q
             g == CellGroups(SubSeq(s, p + 1, Len(s)))
         IN  [ok |-> TRUE, sheet |-> SubSeq(s, 1, p - 1),
              start |-> g.start, end |-> g.end]
    ELSE IF MatchesCells(s)
         THEN LET g == CellGroups(s)
              IN  [ok |-> TRUE, sheet |-> None, start |-> g.start, end |-> g.end]
         ELSE NoMatch

\* parse_range without the normalisation of shell escapes
parse_range_raw(range_str) ==
    LET m == RangeMatch(Strip(range_str))
    IN  IF ~m.ok THEN NoMatch
        ELSE [ok |-> TRUE, sheet |-> m.sheet, start |-> Upper(m.start),
              end |-> IF m.end # None THEN Upper(m.end) ELSE None]

\* ok = FALSE stands for the raised RangeInvalidError
parse_range(range_str) ==
    LET m == RangeMatch(Strip(_normalise_shell_ref(range_str)))
    IN  IF ~m.ok THEN NoMatch
        ELSE [ok |-> TRUE, sheet |-> m.sheet, start |-> Upper(m.start),
              end |-> IF m.end # None THEN Upper(m.end) ELSE None]

\* str.split(","): never empty, "" splits into [""]
RECURSIVE SplitComma(_, _, _)
SplitComma(s, cur, acc) ==
    IF s = <<>> THEN Append(acc, cur)
    ELSE IF Head(s) = ","
         THEN SplitComma(Tail(s), <<>>, Append(acc, cur))
         ELSE SplitComma(Tail(s), Append(cur, Head(s)), acc)

Split(s) == SplitComma(s, <<>>, <<>>)

Contains(s, c) == \E i \in 1..Len(s) : s[i] = c

RECURSIVE MultiLoop(_, _, _)
MultiLoop(parts, sheet_ctx, results) ==
    IF parts = <<>> THEN [ok |-> TRUE, specs |-> results]
    ELSE LET part == Strip(Head(parts))
             parsed == IF Contains(part, "!") THEN parse_range(part)
                       ELSE IF sheet_ctx # None
                            THEN parse_range(sheet_ctx \o <<"!">> \o part)
                            ELSE parse_range(part)
         IN  IF ~parsed.ok THEN [ok |-> FALSE, specs |-> <<>>]
             ELSE MultiLoop(Tail(parts),
                            IF parsed.sheet # None THEN parsed.sheet ELSE sheet_ctx,
                            Append(results, parsed))

parse_multi_range(range_str) == MultiLoop(Split(range_str), None, <<>>)

(***************************************************************************)
(* Tabular source: a sheet of `height` rows (row 1 is the header row) and  *)
(* `width` columns, read through fastexcel's load_sheet.  A data frame     *)
(* records which sheet cells it holds: `cols` are the 0-based sheet        *)
(* columns behind its `columns` names, and `rows` are spans of Excel rows. *)
(***************************************************************************)
Min(a, b) == IF a < b THEN a ELSE b

Max(a, b) == IF a > b THEN a ELSE b

Range(lo, hi) == [i \in 1..Max(hi - lo + 1, 0) |-> lo + i - 1]

Letters(lo, hi) == [i \in 1..Max(hi - lo + 1, 0) |-> index_to_col_letter(lo + i - 1)]

HeaderName(i) == <<"h", ToString(i)>>

UnnamedColumn(i) == <<"__UNNAMED__", ToString(i)>>

NoLimit == -1

NoHeaderRow == -1

AllColumns == <<-1>>

Span(first, n) == IF n > 0 THEN <<[first |-> first, n |-> n]>> ELSE <<>>

Height(df) == IF df.rows = <<>> THEN 0
              ELSE LET RECURSIVE Sum(_)
                       Sum(r) == IF r = <<>> THEN 0 ELSE Head(r).n + Sum(Tail(r))
                   IN  Sum(df.rows)

EmptyFrame == [columns |-> <<>>, cols |-> <<>>, rows |-> <<>>]

LoadFailed == [ok |-> FALSE, df |-> EmptyFrame]

\* reader.load_sheet(name, header_row, skip_rows, n_rows, use_columns): with a
\* header row, skip_rows counts the rows after it; a column index outside the
\* sheet is an error
load_sheet(sh, header_row, skip_rows, n_rows, use_columns) ==
    LET first == IF header_row = NoHeaderRow THEN 1 + skip_rows ELSE 2 + skip_rows
        avail == Max(sh.height - first + 1, 0)
        n     == IF n_rows = NoLimit THEN avail ELSE Min(n_rows, avail)
        sel   == IF use_columns = AllColumns THEN Range(0, sh.width - 1)
                 ELSE use_columns
    IN  IF \E i \in 1..Len(sel) : sel[i] >= sh.width THEN LoadFailed
        ELSE [ok |-> TRUE,
              df |-> [columns |-> [i \in 1..Len(sel) |->
                                      IF header_row = NoHeaderRow
                                      THEN UnnamedColumn(sel[i])
                                      ELSE HeaderName(sel[i])],
                      cols |-> sel,
                      rows |-> Span(first, n)]]

\* sheet.total_height: the rows below the header row
total_height(sh) == Max(sh.height - 1, 0)

\* df.rename(dict(zip(df.columns, names)))
Rename(df, names) ==
    [df EXCEPT !.columns = [i \in 1..Len(df.columns) |->
                               IF i <= Len(names) THEN names[i] ELSE df.columns[i]]]

\* df.slice(offset, length) of a frame holding one span of rows
Slice(df, offset, length) ==
    IF df.rows = <<>> THEN df
    ELSE LET sp == df.rows[1]
             n  == Max(Min(length, sp.n - offset), 0)
         IN  [df EXCEPT !.rows = Span(sp.first + offset, n)]

\* df.select(names)
Select(df, names) ==
    LET pos(nm) == CHOOSE i \in 1..Len(df.columns) : df.columns[i] = nm
    IN  [df EXCEPT !.columns = names,
                   !.cols = [i \in 1..Len(names) |-> df.cols[pos(names[i])]]]

RECURSIVE Filter(_, _)
Filter(s, keep) ==
    IF s = <<>> THEN <<>>
    ELSE IF Head(s) \in keep THEN <<Head(s)>> \o Filter(Tail(s), keep)
         ELSE Filter(Tail(s), keep)

ElementsOf(s) == {s[i] : i \in 1..Len(s)}

(***************************************************************************)
(* Cell references                                                         *)
(***************************************************************************)
DigitChars == <<"0", "1", "2", "3", "4", "5", "6", "7", "8", "9">>

RECURSIVE IntToDigits(_)
IntToDigits(n) ==
    IF n < 10 THEN <<DigitChars[n + 1]>>
    ELSE IntToDigits(n \div 10) \o <<DigitChars[(n % 10) + 1]>>

RECURSIVE DigitFold(_, _)
DigitFold(s, acc) ==
    IF s = <<>> THEN acc
    ELSE DigitFold(Tail(s),
                   acc * 10 + (CHOOSE d \in 0..9 : DigitChars[d + 1] = Head(s)))

\* "".join(c for c in ref if c.isalpha())
ColOf(ref) == SelectSeq(ref, IsAlpha)

\* int("".join(c for c in ref if c.isdigit()))
RowOf(ref) == DigitFold(SelectSeq(ref, IsDigit), 0)

CellRef(col_idx, row) == index_to_col_letter(col_idx) \o IntToDigits(row)

NoWarning == [requested |-> <<>>, through |-> <<>>, omitted |-> 0]

\* "Requested through column X but sheet only has data through Y. N column(s) omitted."
OobWarning(end_letter, last_letter, omitted) ==
    [requested |-> end_letter, through |-> last_letter, omitted |-> omitted]

(***************************************************************************)
(* RangeReader: adapters/polars_adapter.py and commands/read.py            *)
(***************************************************************************)
read_exact_range(sh, start_col_idx, end_col_idx, start_row, end_row) ==
    LET use_cols == Range(start_col_idx, end_col_idx)
        loaded == load_sheet(sh, NoHeaderRow, start_row - 1,
                             end_row - start_row + 1, use_cols)
        col_letters == Letters(start_col_idx, end_col_idx)
    IN  IF ~loaded.ok THEN loaded
        ELSE IF Len(loaded.df.columns) <= Len(col_letters)
             THEN [ok |-> TRUE, df |-> Rename(loaded.df, col_letters)]
             ELSE loaded

\* the end column clamped to the sheet, with the number of columns left out
ClampEnd(sheet_max_col_idx, start_col_idx, end_col_idx) ==
    IF end_col_idx > sheet_max_col_idx
    THEN LET clamped_end_idx == Max(sheet_max_col_idx, start_col_idx)
         IN  [end |-> clamped_end_idx, omitted |-> end_col_idx - clamped_end_idx]
    ELSE [end |-> end_col_idx, omitted |-> 0]

_read_single_range(sh, range_info) ==
    LET start_col == ColOf(range_info.start)
        start_row == RowOf(range_info.start)
        end_col == IF range_info.end # None THEN ColOf(range_info.end) ELSE start_col
        end_row == IF range_info.end # None THEN RowOf(range_info.end) ELSE start_row
        start_col_idx == col_letter_to_index(start_col)
        end_col_idx == col_letter_to_index(end_col)
        clamp == ClampEnd(sh.width - 1, start_col_idx, end_col_idx)
        warning == IF clamp.omitted > 0
                   THEN OobWarning(end_col, index_to_col_letter(clamp.end), clamp.omitted)
                   ELSE NoWarning
        read == read_exact_range(sh, start_col_idx, clamp.end, start_row, end_row)
    IN  [ok |-> read.ok, df |-> read.df,
         warning |-> IF read.ok THEN warning ELSE NoWarning]

\* one entry of read_multi_ranges, sliced from the full frame
BatchEntry(full_df, sheet_width, ri) ==
    LET start_col_idx == col_letter_to_index(ColOf(Upper(ri.start)))
        start_row == RowOf(ri.start)
        end_col_idx == IF ri.end # None THEN col_letter_to_index(ColOf(Upper(ri.end)))
                       ELSE start_col_idx
        end_row == IF ri.end # None THEN RowOf(ri.end) ELSE start_row
        clamp == ClampEnd(sheet_width - 1, start_col_idx, end_col_idx)
        end_letter == IF ri.end # None THEN ColOf(Upper(ri.end)) ELSE ri.start
        warning == IF clamp.omitted > 0
                   THEN OobWarning(end_letter, index_to_col_letter(clamp.end),
                                   clamp.omitted)
                   ELSE NoWarning
        n_rows == end_row - start_row + 1
        df_slice == Slice(full_df, Max(start_row - 2, 0), n_rows)
        col_letters_range == Letters(start_col_idx, clamp.end)
        available_cols == Filter(col_letters_range, ElementsOf(df_slice.columns))
    IN  [ok |-> TRUE,
         df |-> IF available_cols # <<>> THEN Select(df_slice, available_cols)
                ELSE df_slice,
         warning |-> warning]

read_multi_ranges(sh, ranges) ==
    LET full == load_sheet(sh, 0, 0, NoLimit, AllColumns).df
        col_headers == full.columns
        sheet_width == Len(full.columns)
        full_df == Rename(full, Letters(0, sheet_width - 1))
    IN  [results |-> [i \in 1..Len(ranges) |-> BatchEntry(full_df, sheet_width, ranges[i])],
         col_headers |-> col_headers]

(***************************************************************************)
(* ChunkedLoader: read_sheet_data and _read_chunked, adapters/polars_adapter.py *)
(***************************************************************************)
CHUNK_SIZE_ROWS == 100000

CHUNK_THRESHOLD_BYTES == 100 * 1024 * 1024

\* pl.concat of two frames: the rows of b follow the rows of a
Concat(a, b) ==
    IF a.rows # <<>> /\ b.rows # <<>>
       /\ a.rows[Len(a.rows)].first + a.rows[Len(a.rows)].n = b.rows[1].first
    THEN [a EXCEPT !.rows = SubSeq(a.rows, 1, Len(a.rows) - 1)
                            \o <<[first |-> a.rows[Len(a.rows)].first,
                                  n |-> a.rows[Len(a.rows)].n + b.rows[1].n]>>
                            \o Tail(b.rows)]
    ELSE [a EXCEPT !.rows = a.rows \o b.rows]

RECURSIVE ConcatAll(_)
ConcatAll(chunks) ==
    IF Len(chunks) = 1 THEN chunks[1]
    ELSE Concat(ConcatAll(SubSeq(chunks, 1, Len(chunks) - 1)), chunks[Len(chunks)])

\* pl.read_excel(fpath, sheet_name=..., read_options=read_opts)
DirectRead(sh, req) ==
    load_sheet(sh, IF req.no_header THEN NoHeaderRow ELSE 0,
               req.skip_rows, req.n_rows, req.use_columns).df

\* the tail of read_sheet_data: with no_header the columns become A, B, C, ...
LetterColumns(df, no_header) ==
    IF no_header THEN Rename(df, Letters(0, Len(df.columns) - 1)) ELSE df

UseChunked(req) == ~(req.size < CHUNK_THRESHOLD_BYTES \/ req.n_rows # NoLimit)

TargetRows(n_rows, total_rows, skip_rows) ==
    IF n_rows # NoLimit THEN n_rows ELSE total_rows - skip_rows

\* a chunk as large as everything that is left
ChunkNUncapped(target_rows, rows_read) == target_rows - rows_read

ChunkN(target_rows, rows_read) == Min(CHUNK_SIZE_ROWS, target_rows - rows_read)

\* an offset that is never advanced
StuckOffset(offset, chunk_n) == offset

NextOffset(offset, chunk_n) == offset + chunk_n

LoopCondition(l) == l.rows_read < l.target_rows /\ l.offset < l.total_rows

(***************************************************************************)
(* SearchEngine: search_values, adapters/polars_adapter.py, and the search *)
(* command, commands/search.py.  A sheet of the searched workbook carries  *)
(* `cells`: cells[r][c] tells whether the cell in Excel row r and column c *)
(* contains the query.                                                     *)
(***************************************************************************)
MAX_SEARCH_RESULTS == 25

SheetName(i) == <<"S", "h", "e", "e", "t">> \o IntToDigits(i)

\* the frame search_values loads for a sheet when no range is given
SearchFrame(sh, no_header) ==
    IF no_header
    THEN LET df == load_sheet(sh, NoHeaderRow, 0, NoLimit, AllColumns).df
         IN  Rename(df, Letters(0, Len(df.columns) - 1))
    ELSE load_sheet(sh, 0, 0, NoLimit, AllColumns).df

\* df[col][row_idx] contains the query
CellMatches(sh, df, col_idx, row_idx) ==
    sh.cells[df.rows[1].first + row_idx][df.cols[col_idx + 1] + 1]

\* df.with_row_index(...).filter(mask)[...].to_list(): ascending row indices
RECURSIVE MatchIndices(_, _, _, _)
MatchIndices(sh, df, col_idx, from) ==
    IF from >= Height(df) THEN <<>>
    ELSE (IF CellMatches(sh, df, col_idx, from) THEN <<from>> ELSE <<>>)
         \o MatchIndices(sh, df, col_idx, from + 1)

\* the match dict appended for row_idx of column col_idx
MatchOf(name, col_idx, row_idx, no_header) ==
    LET col_letter == index_to_col_letter(col_idx)
        excel_row == IF no_header THEN row_idx + 1 ELSE row_idx + 2
    IN  [sheet |-> name, column |-> col_letter, row |-> excel_row,
         cell |-> col_letter \o IntToDigits(excel_row)]

\* the loop over match_indices: append, then return once limit is reached
RECURSIVE AppendMatches(_, _, _, _, _, _)
AppendMatches(matches, match_indices, name, col_idx, no_header, limit) ==
    IF match_indices = <<>> THEN [matches |-> matches, returned |-> FALSE]
    ELSE LET appended == Append(matches, MatchOf(name, col_idx, Head(match_indices),
                                                 no_header))
         IN  IF Len(appended) >= limit
             THEN [matches |-> appended, returned |-> TRUE]
             ELSE AppendMatches(appended, Tail(match_indices), name, col_idx,
                                no_header, limit)

\* "truncated" of the result of the search command
Truncated(matches) == Len(matches) >= MAX_SEARCH_RESULTS

(***************************************************************************)
(* OutputShaper: cap_list, formatters/token_optimizer.py, and              *)
(* apply_compact, utils/dataframe.py.  A sheet whose cells matter carries  *)
(* `nulls`: the pairs <<r, c>> of the empty cells, Excel row r, column c.  *)
(***************************************************************************)
\* items[:max_count]; a negative bound counts from the end
SlicePrefix(items, max_count) ==
    IF max_count >= 0 THEN SubSeq(items, 1, Min(max_count, Len(items)))
    ELSE SubSeq(items, 1, Max(Len(items) + max_count, 0))

IsTruncatedAtCap(items, max_count) == Len(items) >= max_count

IsTruncated(items, max_count) == Len(items) > max_count

cap_list(items, max_count) ==
    [items |-> SlicePrefix(items, max_count),
     total |-> Len(items),
     truncated |-> IsTruncated(items, max_count)]

\* the Excel rows a frame holds
RowsOf(df) == UNION {df.rows[k].first..(df.rows[k].first + df.rows[k].n - 1) :
                        k \in 1..Len(df.rows)}

\* df[col].null_count() of the i-th column
null_count(sh, df, i) ==
    Cardinality({r \in RowsOf(df) : <<r, df.cols[i] + 1>> \in sh.nulls})

KeepsEveryColumn(sh, df, i) == TRUE

HasValue(sh, df, i) == null_count(sh, df, i) < Height(df)

RECURSIVE NonNullCols(_, _, _)
NonNullCols(sh, df, i) ==
    IF i > Len(df.columns) THEN <<>>
    ELSE (IF HasValue(sh, df, i) THEN <<df.columns[i]>> ELSE <<>>)
         \o NonNullCols(sh, df, i + 1)

apply_compact(sh, df, compact) ==
    IF ~compact \/ Height(df) = 0 THEN df
    ELSE LET non_null_cols == NonNullCols(sh, df, 1)
         IN  IF non_null_cols # <<>> THEN Select(df, non_null_cols) ELSE df

(***************************************************************************)
(* DateHeuristic: excel_serial_to_isodate, utils/dates.py.  A float serial *)
(* is a NaN or a signed fixed-point number: whole `days`, whole seconds    *)
(* `secs` of the day and `sub` tenths of a microsecond of the second.      *)
(***************************************************************************)
SubPerSecond == 10 * 1000000

SecondsPerDay == 24 * 3600

\* 1e-9 of a day, in tenths of a microsecond
EpsilonSub == 864

\* the last day datetime can hold, 9999-12-31, counted from 1899-12-30
MaxSerialDay == 2958465

\* days from 0000-03-01 to the base datetime(1899, 12, 30)
BaseDays == 693899

IsNaN(serial) == serial.nan

IsPositive(serial) ==
    ~serial.nan /\ ~serial.neg /\ (serial.days > 0 \/ serial.secs > 0 \/ serial.sub > 0)

\* frac_part > 1e-9
HasTime(serial) == serial.secs > 0 \/ serial.sub > EpsilonSub

\* the calendar date n days after the base, proleptic Gregorian
YearMonthDay(n) ==
    LET z   == n + BaseDays
        era == z \div 146097
        doe == z - era * 146097
        yoe == (doe - doe \div 1460 + doe \div 36524 - doe \div 146096) \div 365
        doy == doe - (365 * yoe + yoe \div 4 - yoe \div 100)
        mp  == (5 * doy + 2) \div 153
        d   == doy - (153 * mp + 2) \div 5 + 1
        m   == IF mp < 10 THEN mp + 3 ELSE mp - 9
        y   == yoe + era * 400 + (IF m <= 2 THEN 1 ELSE 0)
    IN  [year |-> y, month |-> m, day |-> d]

\* zero-padded decimal digits, as strftime writes %m, %d, %H, %M, %S
Pad2(n) == IF n < 10 THEN <<"0">> \o IntToDigits(n) ELSE IntToDigits(n)

\* dt.strftime("%Y-%m-%d")
DateText(n) ==
    LET ymd == YearMonthDay(n)
    IN  IntToDigits(ymd.year) \o <<"-">> \o Pad2(ymd.month) \o <<"-">> \o Pad2(ymd.day)

\* the %H:%M:%S part of dt.strftime
TimeText(secs) ==
    Pad2(secs \div 3600) \o <<":">> \o Pad2((secs % 3600) \div 60) \o <<":">>
    \o Pad2(secs % 60)

\* timedelta rounds to whole microseconds, halves to even
RoundMicros(sub) ==
    LET q == sub \div 10
        r == sub % 10
    IN  IF r > 5 \/ (r = 5 /\ q % 2 = 1) THEN q + 1 ELSE q

ReturnsNone == [kind |-> "none"]

ReturnsValue(serial) == [kind |-> "value", value |-> serial]

ReturnsText(text) == [kind |-> "text", text |-> text]

Raises == [kind |-> "raise"]

excel_serial_to_isodate(serial) ==
    IF IsNaN(serial) THEN ReturnsNone
    ELSE IF ~IsPositive(serial) THEN ReturnsValue(serial)
    ELSE LET int_part == serial.days
         IN  IF int_part > MaxSerialDay THEN Raises
             ELSE IF HasTime(serial)
             THEN LET micros == RoundMicros(serial.sub)
                      secs == serial.secs + (IF micros = 1000000 THEN 1 ELSE 0)
                      day == int_part + (IF secs = SecondsPerDay THEN 1 ELSE 0)
                  IN  IF day > MaxSerialDay THEN Raises
                      ELSE ReturnsText(DateText(day) \o <<"T">>
                                       \o TimeText(secs % SecondsPerDay))
             ELSE ReturnsText(DateText(int_part))

(***************************************************************************)
(* Date conversion inside a read, _apply_date_conversion of                *)
(* commands/read.py, and inside a search, search_values of                 *)
(* adapters/polars_adapter.py.  A cell value is a text, a numeric text or  *)
(* a number; date detection gives a set of column indices or raises.       *)
(***************************************************************************)
TextCell == [kind |-> "text"]

NumericText(serial) == [kind |-> "numstr", serial |-> serial]

Number(serial) == [kind |-> "num", serial |-> serial]

DetectionRaises == [raises |-> TRUE, indices |-> {}]

Detected(indices) == [raises |-> FALSE, indices |-> indices]

\* float(val) of a text: a ValueError for a text that is no number
IsNumeric(val) == val.kind \in {"numstr", "num"}

\* isinstance(val, (int, float)) and val == val and val > 0
IsConvertible(val) == IsNumeric(val) /\ IsPositive(val.serial)

\* one cell of a date column: the value to store, or the raise of the call
ConvertCell(val) ==
    IF ~IsConvertible(val) THEN [raised |-> FALSE, value |-> val]
    ELSE LET converted == excel_serial_to_isodate(val.serial)
         IN  IF converted = Raises THEN [raised |-> TRUE, value |-> val]
             ELSE IF converted = ReturnsNone THEN [raised |-> FALSE, value |-> val]
             ELSE [raised |-> FALSE, value |-> converted]

\* the loops `for row in rows: for idx in date_indices`, left at the first raise
RECURSIVE ConvertRows(_, _, _, _)
ConvertRows(rows, date_indices, r, idx) ==
    IF r > Len(rows) THEN [raised |-> FALSE, rows |-> rows]
    ELSE IF idx >= Len(rows[r]) THEN ConvertRows(rows, date_indices, r + 1, 0)
    ELSE IF idx \notin date_indices THEN ConvertRows(rows, date_indices, r, idx + 1)
    ELSE LET c == ConvertCell(rows[r][idx + 1])
         IN  IF c.raised THEN [raised |-> TRUE, rows |-> rows]
             ELSE ConvertRows([rows EXCEPT ![r][idx + 1] = c.value], date_indices,
                              r, idx + 1)

\* try: ... except Exception: pass; return rows
_apply_date_conversion(rows, detected) ==
    IF detected.raises THEN [aborted |-> FALSE, rows |-> rows]
    ELSE IF detected.indices = {} THEN [aborted |-> FALSE, rows |-> rows]
    ELSE [aborted |-> FALSE,
          rows |-> ConvertRows(rows, detected.indices, 1, 0).rows]

\* try: all_date_cols = detect_date_column_indices_batch(...) except: {}
SearchDateCols(detected) == IF detected.raises THEN {} ELSE detected.indices

\* the value of a match: converted when its column is a date column; a raise
\* of the conversion leaves search_values
MatchValue(cell_value, abs_col_idx, detected) ==
    IF abs_col_idx \notin SearchDateCols(detected)
    THEN [aborted |-> FALSE, value |-> cell_value]
    ELSE LET c == ConvertCell(cell_value)
         IN  IF c.raised THEN [aborted |-> TRUE, value |-> cell_value]
             ELSE [aborted |-> FALSE, value |-> c.value]

(***************************************************************************)
(* Column filter: resolve_column_filter, utils/validation.py.  No headers  *)
(* (None) is the empty list.                                               *)
(***************************************************************************)
\* x in a list
Member(x, list) == \E i \in 1..Len(list) : list[i] = x

\* str.isalpha()
IsAlphaText(s) == s # <<>> /\ \A i \in 1..Len(s) : IsAlpha(s[i])

\* [c.strip() for c in columns_str.split(",") if c.strip()]
RECURSIVE StripAll(_)
StripAll(parts) ==
    IF parts = <<>> THEN <<>>
    ELSE (IF Strip(Head(parts)) # <<>> THEN <<Strip(Head(parts))>> ELSE <<>>)
         \o StripAll(Tail(parts))

Requested(columns_str) == StripAll(Split(columns_str))

\* header_map[ref]: a later header of the same name replaces an earlier one
HeaderLetter(headers, ref) ==
    LET j == CHOOSE j \in 1..Len(headers) :
                 /\ headers[j] = ref
                 /\ \A k \in (j + 1)..Len(headers) : headers[k] # ref
    IN  index_to_col_letter(j - 1)

\* the body of `for ref in requested`
RECURSIVE ResolveLoop(_, _, _, _, _)
ResolveLoop(requested, df_columns, headers, resolved, invalid) ==
    IF requested = <<>> THEN [resolved |-> resolved, invalid |-> invalid]
    ELSE
      LET ref == Head(requested)
          rest == Tail(requested)
          upper_ref == Upper(ref)
          idx == col_letter_to_index(upper_ref)
      IN  IF Member(ref, df_columns)
          THEN ResolveLoop(rest, df_columns, headers,
                           IF ~Member(ref, resolved) THEN Append(resolved, ref)
                           ELSE resolved,
                           invalid)
          ELSE IF IsAlphaText(upper_ref) /\ 0 <= idx /\ idx < Len(df_columns)
          THEN ResolveLoop(rest, df_columns, headers,
                           IF ~Member(df_columns[idx + 1], resolved)
                           THEN Append(resolved, df_columns[idx + 1])
                           ELSE resolved,
                           invalid)
          ELSE IF /\ Member(ref, headers)
                  /\ Member(HeaderLetter(headers, ref), df_columns)
                  /\ ~Member(HeaderLetter(headers, ref), resolved)
          THEN ResolveLoop(rest, df_columns, headers,
                           Append(resolved, HeaderLetter(headers, ref)), invalid)
          ELSE ResolveLoop(rest, df_columns, headers, resolved,
                           Append(invalid, ref))

\* ok = FALSE: InvalidColumnError(invalid, avail)
resolve_column_filter(columns_str, df_columns, headers) ==
    LET r == ResolveLoop(Requested(columns_str), df_columns, headers, <<>>, <<>>)
    IN  IF r.invalid # <<>>
        THEN [ok |-> FALSE, resolved |-> <<>>, invalid |-> r.invalid]
        ELSE [ok |-> TRUE, resolved |-> r.resolved, invalid |-> <<>>]

(***************************************************************************)
(* The read command: read, commands/read.py, without --formulas, --sort    *)
(* and --format csv.  A result is a function from its keys to its values;  *)
(* `data` is the frame whose rows are written out.                         *)
(***************************************************************************)
MAX_READ_ROWS == 10000

\* effective_limit = min(limit, MAX_READ_ROWS)
EffectiveLimit(limit) == Min(limit, MAX_READ_ROWS)

\* available = get_sheet_names(path)
Available(wb) == [i \in 1..Len(wb) |-> SheetName(i)]

\* the sheet of a name of the workbook
SheetNamed(wb, name) == wb[CHOOSE i \in 1..Len(wb) : SheetName(i) = name]

NotFound == [ok |-> FALSE, sheets |-> <<>>]

\* target_sheets; ok = FALSE: SheetNotFoundError
TargetSheetsOf(wb, ranges, sheet_opt, all_sheets) ==
    IF all_sheets THEN [ok |-> TRUE, sheets |-> Available(wb)]
    ELSE IF ranges # <<>> /\ ranges[1].sheet # None
    THEN IF Member(ranges[1].sheet, Available(wb))
         THEN [ok |-> TRUE, sheets |-> <<ranges[1].sheet>>]
         ELSE NotFound
    ELSE IF sheet_opt # None
    THEN IF Member(sheet_opt, Available(wb))
         THEN [ok |-> TRUE, sheets |-> <<sheet_opt>>]
         ELSE NotFound
    ELSE [ok |-> TRUE, sheets |-> <<SheetName(1)>>]

\* get_sheet_headers: the names of load_sheet(name, n_rows=0)
SheetHeaders(sh) == load_sheet(sh, 0, 0, 0, AllColumns).df.columns

\* a column_map that pairs the i-th column with the i-th header
RECURSIVE ColumnMapByPosition(_, _, _)
ColumnMapByPosition(columns, sheet_headers, i) ==
    IF i > Len(columns) THEN <<>>
    ELSE (IF i <= Len(sheet_headers)
          THEN <<[letter |-> columns[i], name |-> sheet_headers[i]]>>
          ELSE <<>>)
         \o ColumnMapByPosition(columns, sheet_headers, i + 1)

\* column_map: each column letter of df with the row-1 header at its index
RECURSIVE ColumnMap(_, _, _)
ColumnMap(columns, sheet_headers, i) ==
    IF i > Len(columns) THEN <<>>
    ELSE LET idx == col_letter_to_index(columns[i])
         IN  (IF idx < Len(sheet_headers)
              THEN <<[letter |-> columns[i], name |-> sheet_headers[idx + 1]]>>
              ELSE <<>>)
             \o ColumnMap(columns, sheet_headers, i + 1)

\* df.rename(rename_map): letters with a non-empty name take the name
RenameByMap(df, column_map) ==
    [df EXCEPT !.columns =
        [i \in 1..Len(df.columns) |->
            IF \E k \in 1..Len(column_map) :
                  column_map[k].letter = df.columns[i] /\ column_map[k].name # <<>>
            THEN LET k == CHOOSE k \in 1..Len(column_map) :
                              column_map[k].letter = df.columns[i]
                 IN  column_map[k].name
            ELSE df.columns[i]]]

\* the full-sheet read of the command: n_rows is given, so the read is direct
ReadFullSheet(sh, args) ==
    LET req == [size |-> 0, skip_rows |-> args.offset,
                n_rows |-> EffectiveLimit(args.limit),
                use_columns |-> AllColumns, no_header |-> args.no_header]
    IN  LetterColumns(DirectRead(sh, req), args.no_header)

\* compaction and header resolution of one block of a range
ShapeRange(sh, df, args, headers, sheet_headers) ==
    LET compacted == apply_compact(sh, df, args.compact)
        column_map == IF headers /\ ~args.no_header /\ sheet_headers # <<>>
                      THEN ColumnMap(compacted.columns, sheet_headers, 1)
                      ELSE <<>>
    IN  [df |-> RenameByMap(compacted, column_map), column_map |-> column_map]

\* the optional keys of a result
OptionalKeys(column_map, warning) ==
    (IF column_map # <<>> THEN [k \in {"column_map"} |-> column_map] ELSE <<>>)
    @@ (IF warning # NoWarning THEN [k \in {"warning"} |-> warning] ELSE <<>>)

\* an entry of `results`
Entry(range_str, sheet_name, df, column_map, warning) ==
    [range |-> range_str, sheet |-> sheet_name, headers |-> df.columns,
     data |-> df, row_count |-> Height(df)]
    @@ OptionalKeys(column_map, warning)

\* f"{ri['start']}:{ri['end']}" if ri.get("end") else ri.get("start", "")
RangeStr(ri) == IF ri.end # None THEN ri.start \o <<":">> \o ri.end ELSE ri.start

CommandError == [kind |-> "error"]

\* what handle_error writes for an AgentExcelError: e.to_dict(), then
\* SystemExit(1)
ErrorObject(code, suggestions) ==
    [kind |-> "error", code |-> code, suggestions |-> suggestions, exit_status |-> 1]

\* RangeInvalidError: the suggestion shows the notation
RangeInvalidError ==
    ErrorObject("RANGE_INVALID", <<<<"A", "1", ":", "C", "1", "0">>>>)

\* SheetNotFoundError(name, available): the suggestion lists the sheet names
SheetNotFoundError(available) == ErrorObject("SHEET_NOT_FOUND", available)

(***************************************************************************)
(* Memory budget: utils/memory.py.  memory_mb is the resident size of the  *)
(* process, in MB, once the data of a read is loaded.                      *)
(***************************************************************************)
MAX_MEMORY_MB == 500

\* MemoryExceededError(used_mb, limit_mb): the suggestion names --limit
MemoryExceededError ==
    ErrorObject("MEMORY_EXCEEDED", <<<<"-", "-", "l", "i", "m", "i", "t">>>>)

Passes == [kind |-> "none"]

\* check_memory(limit_mb): raises when the process is above the limit
check_memory(memory_mb, limit_mb) ==
    IF memory_mb > limit_mb THEN MemoryExceededError ELSE Passes

\* read_sheet_data of a request that is read directly; memory_mb is not consulted
read_sheet_data(sh, req, memory_mb) ==
    [kind |-> "frame", df |-> LetterColumns(DirectRead(sh, req), req.no_header)]

\* the entries of one target sheet in the multi-result path; ok = FALSE when a
\* read raised
SheetEntries(wb, name, ranges, args) ==
    LET sh == SheetNamed(wb, name)
        headers == ~args.no_header
    IN  IF ranges = <<>>
        THEN [ok |-> TRUE,
              entries |-> <<Entry(name, name,
                                  apply_compact(sh, ReadFullSheet(sh, args), args.compact),
                                  <<>>, NoWarning)>>]
        ELSE LET batch == read_multi_ranges(sh, ranges)
                 reads == IF Len(ranges) > 1 THEN batch.results
                          ELSE <<_read_single_range(sh, ranges[1])>>
                 sheet_headers == IF Len(ranges) > 1 THEN batch.col_headers
                                  ELSE IF headers THEN SheetHeaders(sh) ELSE <<>>
             IN  [ok |-> \A i \in 1..Len(reads) : reads[i].ok,
                  entries |->
                     [i \in 1..Len(reads) |->
                         LET shaped == ShapeRange(sh, reads[i].df, args, headers,
                                                  sheet_headers)
                         IN  Entry(RangeStr(ranges[i]), name, shaped.df,
                                   shaped.column_map, reads[i].warning)]]

RECURSIVE AllEntries(_, _, _, _)
AllEntries(wb, names, ranges, args) ==
    IF names = <<>> THEN [ok |-> TRUE, entries |-> <<>>]
    ELSE LET first == SheetEntries(wb, Head(names), ranges, args)
             rest == AllEntries(wb, Tail(names), ranges, args)
         IN  [ok |-> first.ok /\ rest.ok, entries |-> first.entries \o rest.entries]

\* the result of the multi-result path from its entries
MultiOutput(all, args) ==
    IF ~all.ok THEN CommandError
    ELSE [kind |-> "multi",
          result |-> [results |-> all.entries, total_ranges |-> Len(all.entries),
                      compact |-> args.compact]]

\* the multi-result path: several ranges, or --all-sheets
MultiResult(wb, target_sheets, ranges, args) ==
    MultiOutput(AllEntries(wb, target_sheets, ranges, args), args)

\* "truncated" of a single result
ReadTruncated(df, effective_limit) == Height(df) >= effective_limit

\* the single-result path
SingleResult(wb, target_sheet, ranges, args) ==
    LET sh == SheetNamed(wb, target_sheet)
        is_range == ranges # <<>>
        read == IF is_range THEN _read_single_range(sh, ranges[1])
                ELSE [ok |-> TRUE, df |-> ReadFullSheet(sh, args), warning |-> NoWarning]
        shaped == IF is_range
                  THEN ShapeRange(sh, read.df, args, args.headers, SheetHeaders(sh))
                  ELSE [df |-> apply_compact(sh, read.df, args.compact),
                        column_map |-> <<>>]
        df == shaped.df
    IN  IF ~read.ok THEN CommandError
        ELSE [kind |-> "single",
              result |->
                 [range |-> IF args.range # None THEN args.range ELSE target_sheet,
                  dimensions |-> [rows |-> Height(df), cols |-> Len(df.columns)],
                  headers |-> df.columns, data |-> df, row_count |-> Height(df),
                  truncated |-> ReadTruncated(df, EffectiveLimit(args.limit)),
                  backend |-> "polars+fastexcel"]
                 @@ OptionalKeys(shaped.column_map, read.warning)]

\* ranges = parse_multi_range(range_) or [parse_range(range_)]; ok = FALSE:
\* the parser raised
ParsedRanges(args) ==
    IF args.range # None /\ Contains(args.range, ",")
    THEN parse_multi_range(args.range)
    ELSE IF args.range # None
    THEN [ok |-> parse_range(args.range).ok, specs |-> <<parse_range(args.range)>>]
    ELSE [ok |-> TRUE, specs |-> <<>>]

\* the path taken once the ranges and the target sheets are known
ReadPath(wb, args, parsed, targets) ==
    LET is_multi_range == args.range # None /\ Contains(args.range, ",")
    IN  IF ~parsed.ok THEN RangeInvalidError
        ELSE IF ~targets.ok THEN SheetNotFoundError(Available(wb))
        ELSE IF is_multi_range \/ args.all_sheets
        THEN MultiResult(wb, targets.sheets, parsed.specs, args)
        ELSE SingleResult(wb, targets.sheets[1], parsed.specs, args)

\* the command on its parsed ranges
ReadRanges(wb, args, parsed) ==
    ReadPath(wb, args, parsed,
             TargetSheetsOf(wb, parsed.specs, args.sheet, args.all_sheets))

\* read(file, range_, --sheet, --limit, --offset, --no-header, --headers,
\* --compact, --all-sheets)
read(wb, args) == ReadRanges(wb, args, ParsedRanges(args))

(***************************************************************************)
(* Calls of the column codec                                               *)
(***************************************************************************)
MaxIndex == 9999

MaxColLen == 3

ColChars == {"A", "a", "B", "m", "Z", "z"}

SeqsUpTo(S, n) == UNION {[1..k -> S] : k \in 0..n}

ColumnStrings == SeqsUpTo(ColChars, MaxColLen) \ {<<>>}

CodecIdle == [op |-> "idle", index |-> 0, letters |-> <<>>]

ParserIdle == [op |-> "idle", text |-> <<>>, ok |-> FALSE, specs |-> <<>>]

IndexToColLetter ==
    /\ codec.op = "idle"
    /\ \E i \in 0..MaxIndex :
          codec' = [op |-> "index_to_col_letter", index |-> i,
                    letters |-> index_to_col_letter(i)]
    /\ UNCHANGED <<parser, sheet, reader, loader, book, searcher, command, shaper,
                 dates, colfilter>>

ColLetterToIndex ==
    /\ codec.op = "idle"
    /\ \E s \in ColumnStrings :
          codec' = [op |-> "col_letter_to_index", letters |-> s,
                    index |-> col_letter_to_index(s)]
    /\ UNCHANGED <<parser, sheet, reader, loader, book, searcher, command, shaper,
                 dates, colfilter>>

NoSheet == [height |-> 0, width |-> 0]

ReaderIdle == [op |-> "idle", ranges |-> <<>>, batch |-> <<>>, single |-> <<>>]

NoRequest == [size |-> 0, skip_rows |-> 0, n_rows |-> NoLimit,
              use_columns |-> AllColumns, no_header |-> FALSE]

LoaderIdle ==
    [pc |-> "idle", strategy |-> "none", req |-> NoRequest, total_rows |-> 0,
     target_rows |-> 0, chunks |-> <<>>, fetches |-> <<>>, rows_read |-> 0,
     offset |-> 0, result |-> EmptyFrame]

SearcherIdle ==
    [pc |-> "idle", caller |-> "none", limit |-> 0, no_header |-> FALSE,
     target_sheets |-> <<>>, si |-> 1, ci |-> 1, matches |-> <<>>,
     output |-> [match_count |-> 0, truncated |-> FALSE]]

CommandIdle == [pc |-> "idle"]

ShaperIdle == [op |-> "none"]

DatesIdle == [op |-> "none"]

FilterIdle == [op |-> "none"]

\* the components that take no part in the calls above
OthersIdle ==
    /\ command = CommandIdle /\ shaper = ShaperIdle
    /\ dates = DatesIdle /\ colfilter = FilterIdle

InitCodec == codec = CodecIdle /\ parser = ParserIdle /\ sheet = NoSheet /\ reader = ReaderIdle /\ loader = LoaderIdle
    /\ book = <<>> /\ searcher = SearcherIdle
    /\ OthersIdle

NextCodec == IndexToColLetter \/ ColLetterToIndex

SpecCodec == InitCodec /\ [][NextCodec]_vars

BothCases(c) == {UpperChar(c), LowerLetters[LetterValue(UpperChar(c))]}

\* every way of writing s in upper and lower case
CaseVariants(s) ==
    {v \in [1..Len(s) -> UNION {BothCases(c) : c \in ColChars}] :
        \A i \in 1..Len(s) : v[i] \in BothCases(s[i])}

\* C5: the conversion between column letters and 0-based indices round-trips
\* in both directions, and the letter lookup does not depend on letter case.
C5_RoundTrip ==
    /\ codec.op = "index_to_col_letter" =>
          col_letter_to_index(codec.letters) = codec.index
    /\ codec.op = "col_letter_to_index" =>
          /\ index_to_col_letter(codec.index) = Upper(codec.letters)
          /\ \A v \in CaseVariants(codec.letters) :
                col_letter_to_index(v) = codec.index

C5_Witness ==
    \/ codec.op = "index_to_col_letter" /\ codec.index = MaxIndex
                                        /\ Len(codec.letters) = 3
    \/ codec.op = "col_letter_to_index" /\ codec.letters = <<"a", "Z">>
                                        /\ codec.index = 51

(***************************************************************************)
(* Calls of the address parser                                             *)
(***************************************************************************)
MaxTextLen == 5

MaxTokens == 3

TextChars == {"a", "B", "1", "!", "\\", ":", " "}

\* texts longer than MaxTextLen: 4-letter columns, row 0, nested "!", escapes
LongTexts ==
    { <<"a", "a", "a", "a", "1">>, <<"S", "!", "a", "a", "a", "a", "1">>,
      <<"S", "!", "A", "A", "A", "1", ":", "z", "z", "z", "9", "9">>,
      <<"S", "!", "A", "1", ":", "B", "B", "B", "B", "2">>,
      <<"a", "!", "b", "!", "A", "1", ":", "C", "1", "0">>,
      <<"2", "0", "2", "2", "\\", "!", "h", "5", "4", ":", "a", "t", "5", "4">>,
      <<" ", "M", "y", " ", "S", "!", "A", "1", ":", "B", "2", " ">>,
      <<"n", "o", "t", "_", "a", "_", "r", "a", "n", "g", "e">>,
      <<"A", "0">>, <<"S", "!", "B", "0", ":", "C", "1">>,
      <<"\\", "\\", "!", "!", "A", "1">>, <<"A", "1", ":", "S", "!", "B", "2">> }

RangeTexts == SeqsUpTo(TextChars, MaxTextLen) \cup LongTexts

TokenPool ==
    { <<"A", "1">>, <<" ", "b", "2", " ">>, <<"S", "!", "A", "1", ":", "B", "2">>,
      <<"T", "!", "c", "3">>, <<"S", "\\", "!", "A", "1">>,
      <<"\\", "\\", "!", "!", "A", "1">>, <<"a", " ", "!", "C", "1">>,
      <<"a", "!", "b", "!", "D", "4">>, <<"x">>, <<>>, <<"!", "A", "1">> }

RECURSIVE Join(_)
Join(tokens) ==
    IF Len(tokens) = 1 THEN Head(tokens)
    ELSE Head(tokens) \o <<",">> \o Join(Tail(tokens))

TokenLists == SeqsUpTo(TokenPool, MaxTokens) \ {<<>>}

ParseRange ==
    /\ parser.op = "idle"
    /\ \E t \in RangeTexts :
          LET r == parse_range(t)
          IN  parser' = [op |-> "parse_range", text |-> t, ok |-> r.ok,
                         specs |-> IF r.ok THEN <<r>> ELSE <<>>]
    /\ UNCHANGED <<codec, sheet, reader, loader, book, searcher, command, shaper,
                 dates, colfilter>>

ParseMultiRange ==
    /\ parser.op = "idle"
    /\ \E toks \in TokenLists :
          LET r == parse_multi_range(Join(toks))
          IN  parser' = [op |-> "parse_multi_range", text |-> Join(toks),
                         ok |-> r.ok, specs |-> r.specs]
    /\ UNCHANGED <<codec, sheet, reader, loader, book, searcher, command, shaper,
                 dates, colfilter>>

InitParse == codec = CodecIdle /\ parser = ParserIdle /\ sheet = NoSheet /\ reader = ReaderIdle /\ loader = LoaderIdle
    /\ book = <<>> /\ searcher = SearcherIdle
    /\ OthersIdle

NextParse == ParseRange \/ ParseMultiRange

SpecParse == InitParse /\ [][NextParse]_vars

(***************************************************************************)
(* The range grammar, stated on the text                                   *)
(***************************************************************************)
RECURSIVE LeadingLetters(_)
LeadingLetters(s) ==
    IF s # <<>> /\ IsAlpha(Head(s)) THEN 1 + LeadingLetters(Tail(s)) ELSE 0

\* 1 to 3 letters followed by at least one digit
IsCellText(s) ==
    LET k == LeadingLetters(s)
    IN  k \in 1..3 /\ Len(s) > k /\ \A i \in (k + 1)..Len(s) : IsDigit(s[i])

\* position of the last c in s, 0 when there is none
LastIndexOf(s, c) ==
    IF Contains(s, c)
    THEN CHOOSE i \in 1..Len(s) : s[i] = c /\ \A j \in (i + 1)..Len(s) : s[j] # c
    ELSE 0

CellsOf(t) == SubSeq(t, LastIndexOf(t, "!") + 1, Len(t))

InGrammar(t) ==
    LET bang == LastIndexOf(t, "!")
        cells == CellsOf(t)
        colon == LastIndexOf(cells, ":")
    IN  /\ bang # 1
        /\ IF colon = 0 THEN IsCellText(cells)
           ELSE /\ IsCellText(SubSeq(cells, 1, colon - 1))
                /\ IsCellText(SubSeq(cells, colon + 1, Len(cells)))

GrammarSpec(t) ==
    LET bang == LastIndexOf(t, "!")
        cells == CellsOf(t)
        colon == LastIndexOf(cells, ":")
    IN  [ok |-> TRUE,
         sheet |-> IF bang = 0 THEN None ELSE SubSeq(t, 1, bang - 1),
         start |-> Upper(IF colon = 0 THEN cells ELSE SubSeq(cells, 1, colon - 1)),
         end |-> IF colon = 0 THEN None
                 ELSE Upper(SubSeq(cells, colon + 1, Len(cells)))]

\* C4: parse_range succeeds exactly on the texts that, once the shell escapes
\* are replaced and the surrounding whitespace is trimmed, are an optional
\* sheet name and "!", a start cell and an optional ":" and end cell; the
\* sheet is what precedes the last "!", the cells are upper-cased, and
\* every other text raises RangeInvalid.
C4_ParseRangeGrammar ==
    parser.op = "parse_range" =>
        LET t == Strip(_normalise_shell_ref(parser.text))
        IN  /\ parser.ok = InGrammar(t)
            /\ parser.ok => parser.specs = <<GrammarSpec(t)>>

C4_Witness ==
    /\ parser.op = "parse_range"
    /\ parser.ok
    /\ Contains(parser.text, "\\")
    /\ parser.specs[1].sheet = <<"2", "0", "2", "2">>
    /\ parser.specs[1].start = <<"H", "5", "4">>
    /\ parser.specs[1].end = <<"A", "T", "5", "4">>

\* the sheet prefix of a token, None when it has none
OwnSheet(token) == parse_range(Strip(token)).sheet

\* the sheet of the nearest entry at or before i whose token has a prefix
CarriedSheet(tokens, i) ==
    LET prefixed == {j \in 1..i : OwnSheet(tokens[j]) # None}
    IN  IF prefixed = {} THEN None
        ELSE OwnSheet(tokens[CHOOSE j \in prefixed : \A k \in prefixed : k <= j])

\* C3: parse_multi_range returns one RangeSpec per comma-separated token, in
\* input order; an entry carries its own sheet prefix, or else the sheet of
\* the nearest preceding entry that had one.
C3_SheetCarryForward ==
    (parser.op = "parse_multi_range" /\ parser.ok) =>
        LET tokens == Split(parser.text)
        IN  /\ Len(parser.specs) = Len(tokens)
            /\ \A i \in 1..Len(tokens) :
                  /\ parser.specs[i].start = parse_range(Strip(tokens[i])).start
                  /\ parser.specs[i].end = parse_range(Strip(tokens[i])).end
                  /\ parser.specs[i].sheet = CarriedSheet(tokens, i)

(***************************************************************************)
(* Range reads of one sheet: a multi-range read, then the same ranges read *)
(* one at a time                                                           *)
(***************************************************************************)
MaxWidth == 2

MaxHeight == 3

Sheets == [height : 1..MaxHeight, width : 1..MaxWidth]

\* ranges may reach two columns and one row beyond the largest sheet
RangeInfos ==
    {[ok |-> TRUE, sheet |-> None, start |-> CellRef(c1, r1), end |-> CellRef(c2, r2)] :
        <<c1, c2, r1, r2>> \in
            {q \in (0..(MaxWidth + 1)) \X (0..(MaxWidth + 1))
                   \X (1..(MaxHeight + 1)) \X (1..(MaxHeight + 1)) :
                q[1] <= q[2] /\ q[3] <= q[4]}}
    \cup
    {[ok |-> TRUE, sheet |-> None, start |-> CellRef(c, r), end |-> None] :
        <<c, r>> \in (0..(MaxWidth + 1)) \X (1..(MaxHeight + 1))}

StartCol(ri) == col_letter_to_index(ColOf(ri.start))

EndCol(ri) == IF ri.end # None THEN col_letter_to_index(ColOf(ri.end)) ELSE StartCol(ri)

StartRow(ri) == RowOf(ri.start)

EndRow(ri) == IF ri.end # None THEN RowOf(ri.end) ELSE StartRow(ri)

Disjoint(a, b) ==
    \/ EndCol(a) < StartCol(b) \/ EndCol(b) < StartCol(a)
    \/ EndRow(a) < StartRow(b) \/ EndRow(b) < StartRow(a)

ReadMultiRange ==
    /\ reader.op = "idle"
    /\ \E a \in RangeInfos, b \in RangeInfos :
          /\ Disjoint(a, b)
          /\ reader' = [op |-> "read", ranges |-> <<a, b>>,
                        batch |-> read_multi_ranges(sheet, <<a, b>>).results,
                        single |-> <<>>]
    /\ UNCHANGED <<codec, parser, sheet, loader, book, searcher, command, shaper,
                 dates, colfilter>>

ReadSingleRange ==
    /\ reader.op = "read"
    /\ Len(reader.single) < Len(reader.ranges)
    /\ reader' = [reader EXCEPT !.single =
                     Append(@, _read_single_range(sheet,
                                   reader.ranges[Len(reader.single) + 1]))]
    /\ UNCHANGED <<codec, parser, sheet, loader, book, searcher, command, shaper,
                 dates, colfilter>>

InitRead ==
    /\ codec = CodecIdle /\ parser = ParserIdle
    /\ sheet \in Sheets
    /\ reader = ReaderIdle
    /\ loader = LoaderIdle
    /\ book = <<>> /\ searcher = SearcherIdle
    /\ OthersIdle

NextRead == ReadMultiRange \/ ReadSingleRange

SpecRead == InitRead /\ [][NextRead]_vars

\* C1: for two disjoint ranges of a sheet, the batch path returns for each
\* range the block that the single-range read returns for it: the same column
\* letters, the same sheet rows in the same order and the same warning.
C1_BatchEqualsSingle ==
    \A i \in 1..Len(reader.single) : reader.single[i] = reader.batch[i]

\* what C2 requires of the result of reading range ri
ClampedAndWarned(ri, result) ==
    LET last == sheet.width - 1
    IN  EndCol(ri) > last =>
            /\ result.ok
            /\ \A i \in 1..Len(result.df.cols) :
                  result.df.cols[i] \in StartCol(ri)..last
            /\ result.warning # NoWarning
            /\ result.warning.omitted = EndCol(ri) - last

\* C2: when the end column of a range lies beyond the last column of the
\* sheet, the read does not fail, returns only columns of the sheet inside the
\* requested span, and warns with the number of omitted columns; on the
\* single-range path and on the batch path.
C2_ClampAndWarn ==
    /\ \A i \in 1..Len(reader.batch) :
          ClampedAndWarned(reader.ranges[i], reader.batch[i])
    /\ \A i \in 1..Len(reader.single) :
          ClampedAndWarned(reader.ranges[i], reader.single[i])

(***************************************************************************)
(* Full-sheet loads: read_sheet_data, directly or chunk by chunk.          *)
(* loader.fetches records the load_sheet calls of the chunk loop.          *)
(***************************************************************************)
MaxChunks == 2

\* data rows of the sheets: around each multiple of the chunk size
RowCounts ==
    {n \in {k * CHUNK_SIZE_ROWS + d : k \in 0..MaxChunks, d \in {-1, 0, 1}} : n >= 0}

BigSheets == [height : {n + 1 : n \in RowCounts}, width : 1..MaxWidth]

Requests ==
    [size : {CHUNK_THRESHOLD_BYTES - 1, CHUNK_THRESHOLD_BYTES},
     skip_rows : {0, 1, CHUNK_SIZE_ROWS, CHUNK_SIZE_ROWS + 1},
     n_rows : {NoLimit, 1, CHUNK_SIZE_ROWS + 1},
     use_columns : {AllColumns, <<0>>},
     no_header : BOOLEAN]

ReadSheetData ==
    /\ loader.pc = "idle"
    /\ \E req \in Requests :
          loader' =
              IF UseChunked(req)
              THEN [LoaderIdle EXCEPT
                       !.pc = "loop", !.strategy = "chunked", !.req = req,
                       !.total_rows = total_height(sheet),
                       !.target_rows = TargetRows(req.n_rows, total_height(sheet),
                                                  req.skip_rows),
                       !.offset = req.skip_rows]
              ELSE [LoaderIdle EXCEPT
                       !.pc = "done", !.strategy = "direct", !.req = req,
                       !.result = LetterColumns(DirectRead(sheet, req), req.no_header)]
    /\ UNCHANGED <<codec, parser, sheet, reader, book, searcher, command, shaper,
                 dates, colfilter>>

\* one iteration of the loop of _read_chunked
FetchChunk ==
    /\ loader.pc = "loop"
    /\ LoopCondition(loader)
    /\ LET chunk_n == ChunkN(loader.target_rows, loader.rows_read)
           chunk_df == load_sheet(sheet, 0, loader.offset, chunk_n, AllColumns).df
       IN  loader' = [loader EXCEPT
                         !.chunks = Append(@, chunk_df),
                         !.fetches = Append(@, [skip_rows |-> loader.offset,
                                                n_rows |-> chunk_n]),
                         !.rows_read = @ + Height(chunk_df),
                         !.offset = NextOffset(@, chunk_n)]
    /\ UNCHANGED <<codec, parser, sheet, reader, book, searcher, command, shaper,
                 dates, colfilter>>

\* the loop has ended: concatenate, and finish read_sheet_data
ReturnChunks ==
    /\ loader.pc = "loop"
    /\ ~LoopCondition(loader)
    /\ LET df == IF loader.chunks = <<>>
                 THEN load_sheet(sheet, 0, 0, 0, AllColumns).df
                 ELSE ConcatAll(loader.chunks)
       IN  loader' = [loader EXCEPT
                         !.pc = "done",
                         !.result = LetterColumns(df, loader.req.no_header)]
    /\ UNCHANGED <<codec, parser, sheet, reader, book, searcher, command, shaper,
                 dates, colfilter>>

InitChunk ==
    /\ codec = CodecIdle /\ parser = ParserIdle /\ reader = ReaderIdle
    /\ sheet \in BigSheets
    /\ loader = LoaderIdle
    /\ book = <<>> /\ searcher = SearcherIdle
    /\ OthersIdle

NextChunk == ReadSheetData \/ FetchChunk \/ ReturnChunks

\* the loop runs in one thread to completion: every enabled step is taken
SpecChunk == InitChunk /\ [][NextChunk]_vars /\ WF_vars(NextChunk)

HeldRows ==
    LET RECURSIVE Sum(_)
        Sum(cs) == IF cs = <<>> THEN 0 ELSE Height(Head(cs)) + Sum(Tail(cs))
    IN  Sum(loader.chunks)

\* C8: whenever read_sheet_data selects the chunked strategy, the block it
\* returns is the block an unbounded direct load of the same request returns.
C8_ChunkedEqualsDirect ==
    (loader.pc = "done" /\ loader.strategy = "chunked") =>
        loader.result = LetterColumns(DirectRead(sheet, loader.req),
                                      loader.req.no_header)

SequentialFetches ==
    /\ \A i \in 1..Len(loader.fetches) :
          /\ loader.fetches[i].n_rows \in 1..CHUNK_SIZE_ROWS
          /\ loader.fetches[i].skip_rows =
                IF i = 1 THEN loader.req.skip_rows
                ELSE loader.fetches[i - 1].skip_rows + loader.fetches[i - 1].n_rows
    /\ \A i \in 2..Len(loader.chunks) :
          /\ loader.chunks[i - 1].rows # <<>>
          /\ loader.chunks[i].rows # <<>> =>
                loader.chunks[i].rows[1].first =
                    loader.chunks[i - 1].rows[1].first + loader.chunks[i - 1].rows[1].n

\* the loop has stopped exactly when the requested rows are read or the source
\* is exhausted, and then every requested row that exists has been fetched once
StoppedWhenFinished ==
    (loader.strategy = "chunked" /\ loader.pc = "done") =>
        /\ loader.rows_read >= loader.target_rows \/ loader.offset >= loader.total_rows
        /\ loader.rows_read =
              Max(Min(loader.target_rows, loader.total_rows - loader.req.skip_rows), 0)
        /\ loader.chunks # <<>> =>
              ConcatAll(loader.chunks).rows =
                  Span(loader.req.skip_rows + 2, loader.rows_read)

\* C10: the fetches of _read_chunked are sequential and never overlap, each of
\* at most CHUNK_SIZE_ROWS rows and starting where the previous one ended; the
\* loop ends after finitely many fetches, exactly when the requested rows are
\* read or the source is exhausted.
C10_SequentialFetchesTerminate ==
    /\ [](SequentialFetches /\ StoppedWhenFinished)
    /\ (loader.pc = "loop") ~> (loader.pc = "done")

C10_Witness ==
    /\ loader.strategy = "chunked"
    /\ loader.pc = "done"
    /\ Len(loader.fetches) = 3
    /\ loader.fetches[3].n_rows < CHUNK_SIZE_ROWS

(***************************************************************************)
(* Searches of a workbook: search_values called with a limit, and the      *)
(* search command, which calls it with the default limit                   *)
(***************************************************************************)
MaxSearchRows == 2

MaxLimit == 3

SmallSheets ==
    UNION {[height : {h}, width : {2}, cells : [1..h -> [1..2 -> BOOLEAN]]] :
              h \in 1..MaxSearchRows}

\* one column in which every cell below the header contains the query
TallSheet(n) ==
    [height |-> n + 1, width |-> 1, cells |-> [r \in 1..(n + 1) |-> <<r > 1>>]]

TallSheets ==
    {TallSheet(n) : n \in (MAX_SEARCH_RESULTS - 1)..(MAX_SEARCH_RESULTS + 1)}

Books ==
    {<<a>> : a \in SmallSheets \cup TallSheets}
    \cup {<<a, b>> : a \in SmallSheets, b \in SmallSheets}

\* sheet_name given: that sheet alone; otherwise every sheet in workbook order
TargetSheets(sheet_name) ==
    IF sheet_name # 0 THEN <<sheet_name>> ELSE [i \in 1..Len(book) |-> i]

SearchValues ==
    /\ searcher.pc = "idle"
    /\ \E limit \in 0..MaxLimit, no_header \in BOOLEAN, sheet_name \in 0..Len(book) :
          searcher' = [SearcherIdle EXCEPT
                          !.pc = "scan", !.caller = "search_values",
                          !.limit = limit, !.no_header = no_header,
                          !.target_sheets = TargetSheets(sheet_name)]
    /\ UNCHANGED <<codec, parser, sheet, reader, loader, book, command, shaper,
                 dates, colfilter>>

\* the search command: no limit of its own, search_values' default applies
SearchCommand ==
    /\ searcher.pc = "idle"
    /\ \E no_header \in BOOLEAN, sheet_name \in 0..Len(book) :
          searcher' = [SearcherIdle EXCEPT
                          !.pc = "scan", !.caller = "search",
                          !.limit = MAX_SEARCH_RESULTS, !.no_header = no_header,
                          !.target_sheets = TargetSheets(sheet_name)]
    /\ UNCHANGED <<codec, parser, sheet, reader, loader, book, command, shaper,
                 dates, colfilter>>

CurrentSheet == book[searcher.target_sheets[searcher.si]]

CurrentFrame == SearchFrame(CurrentSheet, searcher.no_header)

\* one column of the current sheet: its matches are appended in row order
ScanColumn ==
    /\ searcher.pc = "scan"
    /\ searcher.si <= Len(searcher.target_sheets)
    /\ Height(CurrentFrame) > 0
    /\ searcher.ci <= Len(CurrentFrame.columns)
    /\ LET df == CurrentFrame
           col_idx == searcher.ci - 1
           r == AppendMatches(searcher.matches,
                              MatchIndices(CurrentSheet, df, col_idx, 0),
                              SheetName(searcher.target_sheets[searcher.si]),
                              col_idx, searcher.no_header, searcher.limit)
       IN  searcher' = [searcher EXCEPT
                           !.matches = r.matches,
                           !.ci = IF r.returned THEN @ ELSE @ + 1,
                           !.pc = IF r.returned THEN "returned" ELSE "scan"]
    /\ UNCHANGED <<codec, parser, sheet, reader, loader, book, command, shaper,
                 dates, colfilter>>

\* an empty frame is skipped; after the last column the next sheet is loaded
NextSheet ==
    /\ searcher.pc = "scan"
    /\ searcher.si <= Len(searcher.target_sheets)
    /\ Height(CurrentFrame) = 0 \/ searcher.ci > Len(CurrentFrame.columns)
    /\ searcher' = [searcher EXCEPT !.si = @ + 1, !.ci = 1]
    /\ UNCHANGED <<codec, parser, sheet, reader, loader, book, command, shaper,
                 dates, colfilter>>

\* the final return of search_values, after the last sheet
SearchReturn ==
    /\ searcher.pc = "scan"
    /\ searcher.si > Len(searcher.target_sheets)
    /\ searcher' = [searcher EXCEPT !.pc = "returned"]
    /\ UNCHANGED <<codec, parser, sheet, reader, loader, book, command, shaper,
                 dates, colfilter>>

\* the result object of the search command
SearchOutput ==
    /\ searcher.pc = "returned"
    /\ searcher.caller = "search"
    /\ searcher' = [searcher EXCEPT
                       !.pc = "done",
                       !.output = [match_count |-> Len(searcher.matches),
                                   truncated |-> Truncated(searcher.matches)]]
    /\ UNCHANGED <<codec, parser, sheet, reader, loader, book, command, shaper,
                 dates, colfilter>>

InitSearch ==
    /\ codec = CodecIdle /\ parser = ParserIdle /\ reader = ReaderIdle
    /\ sheet = NoSheet /\ loader = LoaderIdle
    /\ book \in Books
    /\ searcher = SearcherIdle
    /\ OthersIdle

NextSearch ==
    SearchValues \/ SearchCommand \/ ScanColumn \/ NextSheet \/ SearchReturn
    \/ SearchOutput

SpecSearch == InitSearch /\ [][NextSearch]_vars

(***************************************************************************)
(* The matching cells of a search, stated on the workbook                  *)
(***************************************************************************)
FirstDataRow == IF searcher.no_header THEN 1 ELSE 2

RECURSIVE ColumnHits(_, _, _)
ColumnHits(i, c, r) ==
    IF r > book[i].height THEN <<>>
    ELSE (IF book[i].cells[r][c]
          THEN <<[sheet |-> SheetName(i), column |-> index_to_col_letter(c - 1),
                  row |-> r, cell |-> CellRef(c - 1, r)]>>
          ELSE <<>>)
         \o ColumnHits(i, c, r + 1)

RECURSIVE SheetHits(_, _)
SheetHits(i, c) ==
    IF c > book[i].width THEN <<>>
    ELSE ColumnHits(i, c, FirstDataRow) \o SheetHits(i, c + 1)

RECURSIVE BookHits(_)
BookHits(targets) ==
    IF targets = <<>> THEN <<>>
    ELSE SheetHits(Head(targets), 1) \o BookHits(Tail(targets))

\* every matching cell: sheets in order, columns in order, rows ascending
AllMatches == BookHits(searcher.target_sheets)

\* C6: search_values returns at most `limit` matches, exactly the first
\* min(limit, total) matches of the unlimited search in encounter order, and
\* the scan does not go on once `limit` matches have accumulated.
C6_LimitedPrefix ==
    /\ Len(searcher.matches) <= searcher.limit
    /\ searcher.pc \in {"returned", "done"} =>
          searcher.matches =
              SubSeq(AllMatches, 1, Min(searcher.limit, Len(AllMatches)))
    /\ searcher.pc = "scan" =>
          \/ Len(searcher.matches) < searcher.limit
          \/ searcher.limit = 0 /\ searcher.matches = <<>>

\* C7: the result of the search command has truncated = true when the
\* matching cells outnumber the limit, and false when they all fit in it.
C7_TruncatedFlag ==
    (searcher.caller = "search" /\ searcher.pc = "done") =>
        searcher.output.truncated = (Len(AllMatches) > searcher.limit)

(***************************************************************************)
(* Calls of the output shaper on listings and on blocks read from a sheet  *)
(***************************************************************************)
MaxItems == 4

MaxCap == 5

MaxShapeRows == 3

ShapeWidths == 1..3

Items == SeqsUpTo({"x", "y"}, MaxItems)

\* sheets with a header row and, below it, any pattern of empty cells
NullSheets ==
    UNION {[height : {h}, width : {w}, nulls : SUBSET ((2..h) \X (1..w))] :
              h \in 1..MaxShapeRows, w \in ShapeWidths}

\* the blocks the read command hands to apply_compact: a full-sheet read and
\* the range reads of the sheet
BlocksOf(sh) ==
    {LetterColumns(load_sheet(sh, IF nh THEN NoHeaderRow ELSE 0, skip, NoLimit,
                              AllColumns).df, nh) :
        nh \in BOOLEAN, skip \in 0..1}
    \cup {read_exact_range(sh, c1, Max(c1, c2), r1, Max(r1, r2)).df :
             c1 \in 0..(sh.width - 1), c2 \in 0..(sh.width - 1),
             r1 \in 1..sh.height, r2 \in 1..sh.height}

CapList ==
    /\ shaper.op = "none"
    /\ \E items \in Items, max_count \in 0..MaxCap :
          shaper' = [op |-> "cap_list", items |-> items, max_count |-> max_count,
                     result |-> cap_list(items, max_count)]
    /\ UNCHANGED <<codec, parser, sheet, reader, loader, book, searcher, command,
                   dates, colfilter>>

ApplyCompact ==
    /\ shaper.op = "none"
    /\ \E sh \in NullSheets :
          /\ sheet' = sh
          /\ \E df \in BlocksOf(sh), compact \in BOOLEAN :
                shaper' = [op |-> "apply_compact", df |-> df, compact |-> compact,
                           result |-> apply_compact(sh, df, compact)]
    /\ UNCHANGED <<codec, parser, reader, loader, book, searcher, command,
                   dates, colfilter>>

InitShape ==
    /\ codec = CodecIdle /\ parser = ParserIdle /\ reader = ReaderIdle
    /\ loader = LoaderIdle /\ book = <<>> /\ searcher = SearcherIdle
    /\ command = CommandIdle /\ dates = DatesIdle /\ colfilter = FilterIdle
    /\ sheet = NoSheet
    /\ shaper = ShaperIdle

NextShape == CapList \/ ApplyCompact

SpecShape == InitShape /\ [][NextShape]_vars

\* the positions of the block's columns that hold a value in some row
ValueColumns(df) ==
    {i \in 1..Len(df.columns) :
        \E r \in RowsOf(df) : <<r, df.cols[i] + 1>> \notin sheet.nulls}

\* s restricted to the positions in keep, order preserved
RECURSIVE Restrict(_, _, _)
Restrict(s, keep, i) ==
    IF i > Len(s) THEN <<>>
    ELSE (IF i \in keep THEN <<s[i]>> ELSE <<>>) \o Restrict(s, keep, i + 1)

OnlyValueColumns(df, result) ==
    /\ result.columns = Restrict(df.columns, ValueColumns(df), 1)
    /\ result.cols = Restrict(df.cols, ValueColumns(df), 1)
    /\ result.rows = df.rows

C14_CapList ==
    shaper.op = "cap_list" =>
        LET items == shaper.items
            max_count == shaper.max_count
            r == shaper.result
        IN  /\ Len(r.items) = Min(max_count, Len(items))
            /\ \A i \in 1..Len(r.items) : r.items[i] = items[i]
            /\ r.total = Len(items)
            /\ r.truncated = (Len(items) > max_count)

C14_Witness ==
    /\ shaper.op = "cap_list"
    /\ Len(shaper.items) = shaper.max_count /\ shaper.max_count = 3
    /\ shaper.result.items = shaper.items /\ ~shaper.result.truncated

(***************************************************************************)
(* Conversions of serial numbers                                           *)
(***************************************************************************)
MaxSmallDay == 400

SerialDays == 0..MaxSmallDay \cup {45000, MaxSerialDay - 1, MaxSerialDay, MaxSerialDay + 1}

SerialSecs == {0, 1, 59, 60, 3599, 3600, 43200, SecondsPerDay - 1}

SerialSubs == {0, 1, EpsilonSub - 1, EpsilonSub, EpsilonSub + 1, 5 * 1000000,
               SubPerSecond - 6, SubPerSecond - 5, SubPerSecond - 4, SubPerSecond - 1}

\* a whole number of seconds after midnight of a day
Serial(days, secs) == [nan |-> FALSE, neg |-> FALSE, days |-> days, secs |-> secs, sub |-> 0]

NaN == [nan |-> TRUE, neg |-> FALSE, days |-> 0, secs |-> 0, sub |-> 0]

Serials ==
    {NaN} \cup [nan : {FALSE}, neg : BOOLEAN, days : SerialDays, secs : SerialSecs,
                sub : SerialSubs]

ExcelSerialToIsodate ==
    /\ dates.op = "none"
    /\ \E serial \in Serials :
          dates' = [op |-> "excel_serial_to_isodate", serial |-> serial,
                    result |-> excel_serial_to_isodate(serial)]
    /\ UNCHANGED <<codec, parser, sheet, reader, loader, book, searcher, command,
                   shaper, colfilter>>

MaxDateRows == 2

CellValues ==
    {TextCell, NumericText(Serial(45000, 0)), Number(Serial(45000, 0)),
     Number(Serial(45000, 43200)), Number(Serial(MaxSerialDay + 1, 0)), Number(NaN)}

DateRows == UNION {[1..n -> [1..2 -> CellValues]] : n \in 1..MaxDateRows}

Detections == {DetectionRaises} \cup {Detected(indices) : indices \in SUBSET {0, 1}}

\* the date conversion step of a read: read.py lines 218, 254 and 326
ReadDateConversion ==
    /\ dates.op = "none"
    /\ \E rows \in DateRows, detected \in Detections :
          dates' = [op |-> "read", rows |-> rows, detected |-> detected,
                    raised |-> \/ detected.raises
                               \/ ConvertRows(rows, detected.indices, 1, 0).raised,
                    result |-> _apply_date_conversion(rows, detected)]
    /\ UNCHANGED <<codec, parser, sheet, reader, loader, book, searcher, command,
                   shaper, colfilter>>

\* the date conversion of one match of a search
SearchDateConversion ==
    /\ dates.op = "none"
    /\ \E cell_value \in CellValues, abs_col_idx \in 0..1, detected \in Detections :
          dates' = [op |-> "search", cell_value |-> cell_value,
                    abs_col_idx |-> abs_col_idx, detected |-> detected,
                    raised |-> \/ detected.raises
                               \/ /\ abs_col_idx \in detected.indices
                                  /\ ConvertCell(cell_value).raised,
                    result |-> MatchValue(cell_value, abs_col_idx, detected)]
    /\ UNCHANGED <<codec, parser, sheet, reader, loader, book, searcher, command,
                   shaper, colfilter>>

InitDates ==
    /\ codec = CodecIdle /\ parser = ParserIdle /\ reader = ReaderIdle
    /\ sheet = NoSheet /\ loader = LoaderIdle /\ book = <<>>
    /\ searcher = SearcherIdle /\ command = CommandIdle /\ shaper = ShaperIdle
    /\ colfilter = FilterIdle
    /\ dates = DatesIdle

NextDates == ExcelSerialToIsodate \/ ReadDateConversion \/ SearchDateConversion

SpecDates == InitDates /\ [][NextDates]_vars

IsPrefix(p, t) == Len(p) <= Len(t) /\ SubSeq(t, 1, Len(p)) = p

\* the fraction of the day exceeds the epsilon of 1e-9 day
FractionAboveEpsilon(v) == v.secs > 0 \/ v.sub > EpsilonSub

\* C15: NaN gives null; v <= 0 gives v; v > 0 with a fraction of at most the
\* epsilon gives the date of 1899-12-30 plus floor(v) days; v > 0 with a larger
\* fraction gives that same date, `T`, and the HH:MM:SS of the fraction
\* (to the second, either rounding).  45000.0 gives "2023-03-15" and 45000.5
\* a text starting "2023-03-15T".
C15_SerialToIsoDate ==
    dates.op = "excel_serial_to_isodate" =>
        LET v == dates.serial
            r == dates.result
        IN  /\ v.nan => r = ReturnsNone
            /\ (~v.nan /\ ~IsPositive(v)) => r = ReturnsValue(v)
            /\ (IsPositive(v) /\ ~FractionAboveEpsilon(v)) =>
                  r = ReturnsText(DateText(v.days))
            /\ (IsPositive(v) /\ FractionAboveEpsilon(v)) =>
                  \/ r = ReturnsText(DateText(v.days) \o <<"T">> \o TimeText(v.secs))
                  \/ r = ReturnsText(DateText(v.days) \o <<"T">>
                                     \o TimeText((v.secs + 1) % SecondsPerDay))
            /\ v = Serial(45000, 0) =>
                  r = ReturnsText(<<"2", "0", "2", "3", "-", "0", "3", "-", "1", "5">>)
            /\ v = Serial(45000, 43200) =>
                  /\ r.kind = "text"
                  /\ IsPrefix(<<"2", "0", "2", "3", "-", "0", "3", "-", "1", "5", "T">>,
                              r.text)

\* C16: a raise of date detection or of serial conversion never aborts a read
\* or a search: the operation returns its primary result, each value either
\* as read or converted.
C16_DateFailureNeverFatal ==
    /\ dates.op = "read" =>
          /\ ~dates.result.aborted
          /\ Len(dates.result.rows) = Len(dates.rows)
          /\ \A r \in 1..Len(dates.rows) : \A c \in 1..Len(dates.rows[r]) :
                \/ dates.result.rows[r][c] = dates.rows[r][c]
                \/ dates.result.rows[r][c].kind = "text"
    /\ dates.op = "search" =>
          /\ ~dates.result.aborted
          /\ \/ dates.result.value = dates.cell_value
             \/ dates.result.value.kind = "text"

(***************************************************************************)
(* Column filters of a search: the searched block is the whole sheet under *)
(* its header names, the whole sheet under letters (no_header), or a       *)
(* column span of a range under its letters                                *)
(***************************************************************************)
MaxRefs == 2

MaxFilterWidth == 3

NamePool == {<<"x">>, <<"b">>, <<"B">>, <<"n", "1">>}

\* the row-1 names of a sheet: distinct names
HeaderRows ==
    {h \in SeqsUpTo(NamePool, MaxFilterWidth) :
        h # <<>> /\ \A i, j \in 1..Len(h) : i # j => h[i] # h[j]}

\* a block: its column names, the sheet columns behind them, and the headers
\* search_values hands to resolve_column_filter (none for a header-mode search)
FilterBlocks(names) ==
    {[columns |-> names, cols |-> Range(0, Len(names) - 1), headers |-> None,
      names |-> names],
     [columns |-> Letters(0, Len(names) - 1), cols |-> Range(0, Len(names) - 1),
      headers |-> names, names |-> names]}
    \cup {[columns |-> Letters(c1, c2), cols |-> Range(c1, c2), headers |-> names,
           names |-> names] :
             c1 \in 0..(Len(names) - 1), c2 \in 0..(Len(names) - 1)}

RefPool ==
    NamePool \cup {<<"A">>, <<"a">>, <<"c">>, <<" ", "B">>, <<"z", "z">>, <<>>}

RefLists == SeqsUpTo(RefPool, MaxRefs) \ {<<>>}

ResolveColumnFilter ==
    /\ colfilter.op = "none"
    /\ \E names \in HeaderRows, refs \in RefLists :
          \E block \in {b \in FilterBlocks(names) : b.columns # <<>>} :
             colfilter' = [op |-> "resolve", columns_str |-> Join(refs),
                           block |-> block,
                           result |-> resolve_column_filter(Join(refs), block.columns,
                                                            block.headers)]
    /\ UNCHANGED <<codec, parser, sheet, reader, loader, book, searcher, command,
                   shaper, dates>>

InitFilter ==
    /\ codec = CodecIdle /\ parser = ParserIdle /\ reader = ReaderIdle
    /\ sheet = NoSheet /\ loader = LoaderIdle /\ book = <<>>
    /\ searcher = SearcherIdle /\ command = CommandIdle /\ shaper = ShaperIdle
    /\ dates = DatesIdle
    /\ colfilter = FilterIdle

NextFilter == ResolveColumnFilter

SpecFilter == InitFilter /\ [][NextFilter]_vars

\* the references of a filter text
References(columns_str) ==
    LET parts == Split(columns_str)
        keep == {i \in 1..Len(parts) : Strip(parts[i]) # <<>>}
    IN  Restrict([i \in 1..Len(parts) |-> Strip(parts[i])], keep, 1)

\* the positions of the block's columns a reference names: by exact column
\* name, else by the letter of the sheet column, else by the row-1 header
Named(block, ref) ==
    IF Member(ref, block.columns)
    THEN {i \in 1..Len(block.columns) : block.columns[i] = ref}
    ELSE IF IsAlphaText(ref) /\ Len(ref) <= 3 /\
            \E i \in 1..Len(block.cols) : block.cols[i] = col_letter_to_index(Upper(ref))
    THEN {i \in 1..Len(block.cols) : block.cols[i] = col_letter_to_index(Upper(ref))}
    ELSE IF block.headers # None
    THEN {i \in 1..Len(block.cols) :
             block.cols[i] + 1 <= Len(block.names) /\ block.names[block.cols[i] + 1] = ref}
    ELSE {}

\* the first occurrences of a list, in order
RECURSIVE Dedupe(_, _)
Dedupe(list, seen) ==
    IF list = <<>> THEN <<>>
    ELSE IF Head(list) \in seen THEN Dedupe(Tail(list), seen)
    ELSE <<Head(list)>> \o Dedupe(Tail(list), seen \cup {Head(list)})

\* C17: every reference resolves to the column of the block it names, by exact
\* name, by letter (any case) or by row-1 header name, the columns come back in
\* request order; a reference naming no column of the block raises the
\* invalid-column error naming exactly the unresolved references.
C17_ResolveColumnFilter ==
    colfilter.op = "resolve" =>
        LET block == colfilter.block
            refs == References(colfilter.columns_str)
            unresolved == {i \in 1..Len(refs) : Named(block, refs[i]) = {}}
            r == colfilter.result
        IN  IF unresolved = {}
            THEN /\ r.ok
                 /\ r.resolved =
                       Dedupe([i \in 1..Len(refs) |->
                                  block.columns[CHOOSE k \in Named(block, refs[i]) : TRUE]],
                              {})
            ELSE /\ ~r.ok
                 /\ r.invalid = Restrict(refs, unresolved, 1)

\* what the reference alone resolves to
Alone(ref) ==
    resolve_column_filter(ref, colfilter.block.columns, colfilter.block.headers)

\* C18: references that each resolve, several of them to the same column by
\* any mix of name, letter and header name, resolve together: the column
\* appears once and no repeated reference is reported as invalid.
C18_Deduplicates ==
    colfilter.op = "resolve" =>
        LET refs == References(colfilter.columns_str)
            r == colfilter.result
        IN  (\A i \in 1..Len(refs) : Alone(refs[i]).ok) =>
               /\ r.ok
               /\ r.resolved =
                     Dedupe([i \in 1..Len(refs) |-> Alone(refs[i]).resolved[1]], {})

(***************************************************************************)
(* Runs of the read command on a workbook                                  *)
(***************************************************************************)
MaxCmdRows == 3

\* a sheet whose columns in `empty` hold no value below the header row
CmdSheet(h, w, empty) ==
    [height |-> h, width |-> w, nulls |-> (2..h) \X (empty \cap (1..w))]

CmdSheets ==
    {CmdSheet(h, w, empty) : h \in 1..MaxCmdRows, w \in 1..2, empty \in SUBSET {1, 2}}

\* more rows than MAX_READ_ROWS
LongSheet == CmdSheet(MAX_READ_ROWS + 3, 1, {})

Workbooks ==
    {<<a>> : a \in CmdSheets \cup {LongSheet}}
    \cup {<<a, CmdSheet(2, 2, {})>> : a \in CmdSheets}

RangeText(c1, r1, c2, r2) == CellRef(c1, r1) \o <<":">> \o CellRef(c2, r2)

CmdRanges ==
    {None, CellRef(0, 1), RangeText(0, 1, 1, 2), RangeText(0, 2, 0, 4),
     RangeText(1, 1, 2, 3),
     Join(<<RangeText(0, 1, 0, 3), CellRef(1, 2)>>),
     Join(<<RangeText(0, 2, 1, 3), RangeText(2, 1, 2, 2)>>),
     SheetName(2) \o <<"!">> \o RangeText(0, 1, 1, 2),
     Join(<<RangeText(0, 1, 1, 2), <<"z", "z">>>>),
     Join(<<SheetName(1) \o <<"!">> \o RangeText(0, 1, 1, 2),
            SheetName(2) \o <<"!">> \o RangeText(0, 2, 1, 3)>>),
     Join(<<SheetName(1) \o <<"!">> \o CellRef(0, 1),
            SheetName(3) \o <<"!">> \o CellRef(1, 2)>>)}

CmdLimits == {0, 1, 2, MAX_READ_ROWS + 1}

CmdArgs ==
    [range : CmdRanges, sheet : {None, SheetName(2)}, limit : CmdLimits,
     offset : 0..1, no_header : BOOLEAN, headers : BOOLEAN, compact : BOOLEAN,
     all_sheets : BOOLEAN]

Read ==
    /\ command.pc = "idle"
    /\ \E args \in CmdArgs :
          command' = [pc |-> "done", args |-> args, out |-> read(book, args)]
    /\ UNCHANGED <<codec, parser, sheet, reader, loader, book, searcher, shaper,
                   dates, colfilter>>

InitCommand ==
    /\ codec = CodecIdle /\ parser = ParserIdle /\ reader = ReaderIdle
    /\ sheet = NoSheet /\ loader = LoaderIdle /\ searcher = SearcherIdle
    /\ shaper = ShaperIdle /\ dates = DatesIdle /\ colfilter = FilterIdle
    /\ book \in Workbooks
    /\ command = CommandIdle

NextCommand == Read

SpecCommand == InitCommand /\ [][NextCommand]_vars

\* the blocks of the result of a run
Blocks ==
    IF command.pc # "done" \/ command.out.kind = "error" THEN <<>>
    ELSE IF command.out.kind = "single" THEN <<command.out.result>>
    ELSE command.out.result.results

\* C11: every block the read command returns holds at most
\* min(limit, MAX_READ_ROWS) data rows: full-sheet read, single-range read, and
\* every entry of a multi-range or all-sheets read.
C11_RowsWithinLimit ==
    \A i \in 1..Len(Blocks) :
        Blocks[i].row_count <= Min(command.args.limit, MAX_READ_ROWS)

\* the sheet a single-result run reads
SingleSheet ==
    IF command.args.sheet # None THEN SheetNamed(book, command.args.sheet)
    ELSE book[1]

\* the rows of the sheet after the offset
RowsAfterOffset ==
    Max((IF command.args.no_header THEN SingleSheet.height ELSE SingleSheet.height - 1)
        - command.args.offset, 0)

\* C12: a single-result read of a sheet reports truncated = false when the
\* sheet's rows after the offset fit within the effective limit, and
\* truncated = true when the limit cut rows off.
C12_TruncatedFlag ==
    (command.pc = "done" /\ command.out.kind = "single" /\ command.args.range = None) =>
        command.out.result.truncated =
            (RowsAfterOffset > Min(command.args.limit, MAX_READ_ROWS))

\* header resolution is in force for the run
Resolving ==
    /\ command.args.range # None
    /\ ~command.args.no_header
    /\ command.args.headers \/ command.out.kind = "multi"

\* the block's column_map pairs the letter of each returned sheet column with
\* that column's row-1 header, and the headers are those names
MapsLettersToHeaders(block) ==
    /\ "column_map" \in DOMAIN block
    /\ Len(block.column_map) = Len(block.data.cols)
    /\ \A i \in 1..Len(block.data.cols) :
          /\ block.column_map[i].letter = index_to_col_letter(block.data.cols[i])
          /\ block.column_map[i].name = HeaderName(block.data.cols[i])
          /\ block.headers[i] = HeaderName(block.data.cols[i])

C20_OutputContract ==
    \A i \in 1..Len(Blocks) :
        /\ {"headers", "row_count", "truncated"} \subseteq DOMAIN Blocks[i]
        /\ Blocks[i].truncated \in BOOLEAN

(***************************************************************************)
(* Cell addresses of the parsed ranges                                     *)
(***************************************************************************)
\* the cell texts of a RangeSpec
CellsOfSpec(spec) == {spec.start} \cup (IF spec.end # None THEN {spec.end} ELSE {})

\* C21: every cell address in a RangeSpec returned by parse_range or
\* parse_multi_range has row >= 1: a text whose start or end cell has row 0
\* is rejected, never parsed.
C21_RowsStartAtOne ==
    (parser.op \in {"parse_range", "parse_multi_range"} /\ parser.ok) =>
        \A i \in 1..Len(parser.specs) :
            \A cell \in CellsOfSpec(parser.specs[i]) : RowOf(cell) >= 1

(***************************************************************************)
(* Errors of the read command                                              *)
(***************************************************************************)
\* the comma-separated tokens of the range text of a run
RangeTokens(range) == IF range = None THEN <<>> ELSE Split(range)

\* a token that is not in the range grammar
IsMalformed(token) == ~InGrammar(Strip(_normalise_shell_ref(token)))

\* the sheets named by --sheet or by a range entry
NamedSheets(args) ==
    ((IF args.sheet # None THEN {args.sheet} ELSE {})
     \cup {OwnSheet(RangeTokens(args.range)[i]) :
              i \in 1..Len(RangeTokens(args.range))})
    \ {None}

\* C22: in a read, a malformed token anywhere in the range text, and a sheet
\* named by --sheet or by any range entry that the workbook does not have,
\* abort the command: the only output is the error object (RANGE_INVALID, or
\* SHEET_NOT_FOUND carrying the available sheet names) with exit status 1, and
\* no result is emitted.
C22_ParseAndSheetErrorsAbort ==
    command.pc = "done" =>
        LET tokens == RangeTokens(command.args.range)
            malformed == \E i \in 1..Len(tokens) : IsMalformed(tokens[i])
            missing == {n \in NamedSheets(command.args) : ~Member(n, Available(book))}
        IN  /\ malformed => command.out = RangeInvalidError
            /\ (~malformed /\ missing # {}) =>
                  command.out = SheetNotFoundError(Available(book))

(***************************************************************************)
(* Reads under a memory level                                              *)
(***************************************************************************)
MemoryLevels == {MAX_MEMORY_MB - 1, MAX_MEMORY_MB, MAX_MEMORY_MB + 1}

MemArgs ==
    [range : CmdRanges, sheet : {None}, limit : {2}, offset : {0},
     no_header : BOOLEAN, headers : {FALSE}, compact : {FALSE},
     all_sheets : BOOLEAN]

MemRequests ==
    [size : {0}, skip_rows : 0..1, n_rows : {NoLimit, 1, 2},
     use_columns : {AllColumns}, no_header : BOOLEAN]

CheckMemory ==
    /\ command.pc = "idle"
    /\ \E m \in MemoryLevels :
          command' = [pc |-> "check_memory", memory_mb |-> m,
                      out |-> check_memory(m, MAX_MEMORY_MB)]
    /\ UNCHANGED <<codec, parser, sheet, reader, loader, book, searcher, shaper,
                   dates, colfilter>>

ReadSheetDataUnder ==
    /\ command.pc = "idle"
    /\ \E m \in MemoryLevels, req \in MemRequests :
          command' = [pc |-> "read_sheet_data", memory_mb |-> m, req |-> req,
                      out |-> read_sheet_data(book[1], req, m)]
    /\ UNCHANGED <<codec, parser, sheet, reader, loader, book, searcher, shaper,
                   dates, colfilter>>

ReadUnder ==
    /\ command.pc = "idle"
    /\ \E m \in MemoryLevels, args \in MemArgs :
          command' = [pc |-> "read", memory_mb |-> m, args |-> args,
                      out |-> read(book, args)]
    /\ UNCHANGED <<codec, parser, sheet, reader, loader, book, searcher, shaper,
                   dates, colfilter>>

NextMemory == CheckMemory \/ ReadSheetDataUnder \/ ReadUnder

SpecMemory == InitCommand /\ [][NextMemory]_vars

\* an error raised before any data is loaded
RaisedBeforeLoad(out) == out \in {RangeInvalidError, SheetNotFoundError(Available(book))}

\* C23: a read that takes the process above MAX_MEMORY_MB fails with the
\* MEMORY_EXCEEDED error instead of completing: on every read path the memory
\* check runs before the result is returned.
C23_MemoryCeiling ==
    (command.pc \in {"read", "read_sheet_data"} /\ command.memory_mb > MAX_MEMORY_MB) =>
        \/ RaisedBeforeLoad(command.out)
        \/ command.out = MemoryExceededError

(***************************************************************************)
(* Sample rows: _df_to_sparse_rows, adapters/polars_adapter.py.  A value   *)
(* is a record of its kind, its text (strings) and its number (numbers,    *)
(* and the day serial of a date).                                          *)
(***************************************************************************)
SAMPLE_VALUE_MAX_CHARS == 100

Value(kind, text, num) == [kind |-> kind, text |-> text, num |-> num]

NullValue == Value("null", <<>>, 0)

NaNValue == Value("nan", <<>>, 0)

\* a string of n characters whose i-th character tells i
StrOfLen(n) == [i \in 1..n |-> DigitChars[(i % 10) + 1]]

\* val.isoformat() of a date
IsoFormat(val) == Value("str", DateText(val.num), 0)

\* a string cut strictly before the cap
IsLongAtCap(val) == val.kind = "str" /\ Len(val.text) >= SAMPLE_VALUE_MAX_CHARS

\* isinstance(val, str) and len(val) > SAMPLE_VALUE_MAX_CHARS
IsLong(val) == val.kind = "str" /\ Len(val.text) > SAMPLE_VALUE_MAX_CHARS

\* val[:SAMPLE_VALUE_MAX_CHARS] + "..."
CutValue(val) ==
    Value("str", SubSeq(val.text, 1, SAMPLE_VALUE_MAX_CHARS) \o <<".", ".", ".">>, 0)

\* the loop over zip(columns, row)
RECURSIVE SparseLoop(_, _, _, _)
SparseLoop(columns, row, i, sparse) ==
    IF i > Len(columns) \/ i > Len(row) THEN sparse
    ELSE LET val == row[i]
         IN  IF val.kind = "null" THEN SparseLoop(columns, row, i + 1, sparse)
             ELSE IF val.kind = "nan" THEN SparseLoop(columns, row, i + 1, sparse)
             ELSE IF val.kind = "date"
             THEN SparseLoop(columns, row, i + 1,
                             (columns[i] :> IsoFormat(val)) @@ sparse)
             ELSE IF IsLong(val)
             THEN SparseLoop(columns, row, i + 1,
                             (columns[i] :> CutValue(val)) @@ sparse)
             ELSE SparseLoop(columns, row, i + 1, (columns[i] :> val) @@ sparse)

_df_to_sparse_rows(columns, rows) ==
    [r \in 1..Len(rows) |-> SparseLoop(columns, rows[r], 1, <<>>)]

MaxOver == 2

SampleHeights == 1..2

SampleColumns == <<HeaderName(0), HeaderName(1)>>

SampleValues ==
    {NullValue, NaNValue, Value("float", <<>>, 3), Value("int", <<>>, 0),
     Value("bool", <<>>, 1), Value("date", <<>>, 45000), Value("date", <<>>, 61)}
    \cup {Value("str", StrOfLen(n), 0) :
             n \in {0, 1} \cup ((SAMPLE_VALUE_MAX_CHARS - 1)..(SAMPLE_VALUE_MAX_CHARS + MaxOver))}

SampleRows ==
    UNION {[1..h -> [1..Len(SampleColumns) -> SampleValues]] : h \in SampleHeights}

DfToSparseRows ==
    /\ shaper.op = "none"
    /\ \E rows \in SampleRows :
          shaper' = [op |-> "_df_to_sparse_rows", columns |-> SampleColumns,
                     rows |-> rows,
                     result |-> _df_to_sparse_rows(SampleColumns, rows)]
    /\ UNCHANGED <<codec, parser, sheet, reader, loader, book, searcher, command,
                   dates, colfilter>>

NextSample == DfToSparseRows

SpecSample == InitShape /\ [][NextSample]_vars

\* the fields of a value that is neither null nor NaN
IsEmitted(val) == val.kind \notin {"null", "nan"}

\* the row r of the call emits exactly its non-null fields, each as Expected says
EmitsRow(r, Expected(_)) ==
    LET row == shaper.rows[r]
        out == shaper.result[r]
    IN  /\ DOMAIN out = {shaper.columns[i] : i \in {j \in 1..Len(row) : IsEmitted(row[j])}}
        /\ \A i \in 1..Len(row) :
              IsEmitted(row[i]) => out[shaper.columns[i]] = Expected(row[i])

\* a long string is cut and marked, every other value is unchanged
CutOrUnchanged(val) ==
    IF val.kind = "str" /\ Len(val.text) > SAMPLE_VALUE_MAX_CHARS
    THEN Value("str", SubSeq(val.text, 1, SAMPLE_VALUE_MAX_CHARS) \o <<".", ".", ".">>, 0)
    ELSE val

\* as CutOrUnchanged, but a date is emitted as its ISO-8601 text
CutIsoOrUnchanged(val) ==
    IF val.kind = "date" THEN Value("str", DateText(val.num), 0)
    ELSE CutOrUnchanged(val)

\* C24: for each sample row, _df_to_sparse_rows emits exactly the fields whose
\* value is non-null and not NaN, never a null field; a string longer than
\* SAMPLE_VALUE_MAX_CHARS is cut to its first SAMPLE_VALUE_MAX_CHARS characters
\* followed by "...", and every other value is emitted unchanged.
C24_SparseRows ==
    shaper.op = "_df_to_sparse_rows" =>
        /\ Len(shaper.result) = Len(shaper.rows)
        /\ \A r \in 1..Len(shaper.rows) : EmitsRow(r, CutOrUnchanged)

\* C24, amended: as C24, except that a date value is emitted as its ISO-8601
\* text; every value that is neither a long string nor a date is unchanged.
C24_SparseRowsIsoDates ==
    shaper.op = "_df_to_sparse_rows" =>
        /\ Len(shaper.result) = Len(shaper.rows)
        /\ \A r \in 1..Len(shaper.rows) : EmitsRow(r, CutIsoOrUnchanged)

\* a call that dropped a null, cut a long string and kept a string at the cap
C24_Witness ==
    /\ shaper.op = "_df_to_sparse_rows"
    /\ Len(shaper.rows) = 2
    /\ shaper.rows[1][1] = NullValue
    /\ Len(shaper.rows[1][2].text) = SAMPLE_VALUE_MAX_CHARS + 1
    /\ DOMAIN shaper.result[1] = {HeaderName(1)}
    /\ Len(shaper.result[1][HeaderName(1)].text) = SAMPLE_VALUE_MAX_CHARS + 3
    /\ Len(shaper.rows[2][1].text) = SAMPLE_VALUE_MAX_CHARS
    /\ shaper.result[2][HeaderName(0)] = shaper.rows[2][1]
    /\ shaper.rows[2][2].kind = "date"
    /\ shaper.result[2][HeaderName(1)].kind = "str"

(***************************************************************************)
(* Macro execution: vba --run, commands/vba.py.  The command is followed   *)
(* step by step: `passed` lists the gates passed so far, `executed` tells  *)
(* whether run_macro was called, `code` is the code of the raised error.   *)
(***************************************************************************)
\* str.lower() on one character
LowerChar(c) ==
    IF IsUpper(c) THEN LowerLetters[LetterValue(c)] ELSE c

\* str.lower()
Lower(s) == [i \in 1..Len(s) |-> LowerChar(s[i])]

EXCEL_EXTENSIONS ==
    {<<".", "x", "l", "s", "x">>, <<".", "x", "l", "s", "m">>,
     <<".", "x", "l", "s", "b">>, <<".", "x", "l", "s">>, <<".", "o", "d", "s">>}

VBA_EXTENSIONS == {<<".", "x", "l", "s", "m">>, <<".", "x", "l", "s", "b">>}

\* path.suffix.lower() in VBA_EXTENSIONS
IsVbaCapable(suffix) == Lower(suffix) \in VBA_EXTENSIONS

\* [A-Za-z_]
IsNameStart(c) == IsAlpha(c) \/ c = "_"

\* [A-Za-z0-9_. ]
IsNameChar(c) == IsAlpha(c) \/ IsDigit(c) \/ c \in {"_", ".", " "}

\* re.match(r"^[A-Za-z_][A-Za-z0-9_. ]*$", run): $ also matches before a
\* newline that ends the text
MatchesMacroName(run) ==
    LET name == IF run # <<>> /\ run[Len(run)] = "\n"
                THEN SubSeq(run, 1, Len(run) - 1) ELSE run
    IN  /\ name # <<>>
        /\ IsNameStart(name[1])
        /\ \A i \in 2..Len(name) : IsNameChar(name[i])

\* a pre-check that blocks nothing
NeverBlocked(risk_level, allow_risky) == FALSE

\* security_report.get("risk_level") == "high" and not allow_risky
IsBlocked(risk_level, allow_risky) == risk_level = "high" /\ ~allow_risky

Suffixes ==
    EXCEL_EXTENSIONS
    \cup {<<".", "X", "L", "S", "M">>, <<".", "X", "l", "s", "b">>, <<".", "t", "x", "t">>}

MacroNames ==
    {<<>>, <<"M", "1">>, <<"_", "a", ".", "b", " ", "c">>, <<"M", "o", "d", ".", "R", "u", "n">>,
     <<"1", "x">>, <<".", ".", "/", "x">>, <<"a", "/", "b">>, <<"a", ";", "b">>,
     <<" ", "x">>, <<"M", "\n">>, <<"\n">>, <<"M", "\n", "\n">>}

\* outcomes of analyse_vba_security: a risk level, or an exception of oletools
RiskLevels == {"low", "medium", "high", "raises"}

\* --args: absent, JSON, or text that json.loads rejects
MacroArgs == {"none", "json", "not json"}

VbaStep(pc, code) == [command EXCEPT !.pc = pc, !.code = code]

\* vba(file, --run, --args, --allow-risky): validate_file, then `if run`
Vba ==
    /\ command.pc = "idle"
    /\ \E suffix \in Suffixes, run \in MacroNames, risk \in RiskLevels,
          allow_risky \in BOOLEAN, args \in MacroArgs :
          LET call == [pc |-> "validate_file", suffix |-> suffix, run |-> run,
                       risk_level |-> risk, allow_risky |-> allow_risky,
                       args |-> args, passed |-> <<>>, executed |-> FALSE,
                       code |-> "none"]
          IN  command' =
                 IF Lower(suffix) \notin EXCEL_EXTENSIONS
                 THEN [call EXCEPT !.pc = "raised", !.code = "INVALID_FORMAT"]
                 ELSE IF run = <<>> THEN [call EXCEPT !.pc = "listed"]
                 ELSE [call EXCEPT !.pc = "gate1"]
    /\ UNCHANGED <<codec, parser, sheet, reader, loader, book, searcher, shaper,
                   dates, colfilter>>

\* Gate 1: only VBA-capable formats support macro execution
Gate1 ==
    /\ command.pc = "gate1"
    /\ command' =
          IF ~IsVbaCapable(command.suffix) THEN VbaStep("raised", "INVALID_FORMAT")
          ELSE [command EXCEPT !.pc = "gate2", !.passed = Append(@, 1)]
    /\ UNCHANGED <<codec, parser, sheet, reader, loader, book, searcher, shaper,
                   dates, colfilter>>

\* Gate 2: validate the macro name
Gate2 ==
    /\ command.pc = "gate2"
    /\ command' =
          IF ~MatchesMacroName(command.run)
          THEN VbaStep("raised", "INVALID_MACRO_NAME")
          ELSE [command EXCEPT !.pc = "gate3", !.passed = Append(@, 2)]
    /\ UNCHANGED <<codec, parser, sheet, reader, loader, book, searcher, shaper,
                   dates, colfilter>>

\* Gate 3: the security pre-check
Gate3 ==
    /\ command.pc = "gate3"
    /\ command' =
          IF command.risk_level = "raises" THEN VbaStep("crashed", "none")
          ELSE IF IsBlocked(command.risk_level, command.allow_risky)
          THEN VbaStep("raised", "MACRO_BLOCKED")
          ELSE [command EXCEPT !.pc = "run", !.passed = Append(@, 3)]
    /\ UNCHANGED <<codec, parser, sheet, reader, loader, book, searcher, shaper,
                   dates, colfilter>>

\* json.loads(args), then run_macro(filepath, macro_name, args, save)
RunMacro ==
    /\ command.pc = "run"
    /\ command' =
          IF command.args = "not json" THEN VbaStep("crashed", "none")
          ELSE [command EXCEPT !.pc = "done", !.executed = TRUE]
    /\ UNCHANGED <<codec, parser, sheet, reader, loader, book, searcher, shaper,
                   dates, colfilter>>

NextVba == Vba \/ Gate1 \/ Gate2 \/ Gate3 \/ RunMacro

SpecVba == InitShape /\ [][NextVba]_vars

\* the command has left a --run call
RunEnded == command.pc \in {"raised", "crashed", "done"} /\ command.run # <<>>

\* C25: vba --run invokes run_macro only after all three gates have passed,
\* in this order: the extension is VBA-capable, else INVALID_FORMAT; the macro
\* name matches the safe-name pattern, else INVALID_MACRO_NAME; the security
\* analysis does not report "high" unless --allow-risky is given, else
\* MACRO_BLOCKED.  Whenever a gate fails, the macro is never executed.
C25_GatesBeforeRun ==
    command.pc # "idle" =>
        /\ command.executed =>
              /\ command.passed = <<1, 2, 3>>
              /\ IsVbaCapable(command.suffix)
              /\ MatchesMacroName(command.run)
              /\ command.risk_level # "high" \/ command.allow_risky
        /\ RunEnded =>
              IF ~IsVbaCapable(command.suffix)
              THEN command.code = "INVALID_FORMAT" /\ ~command.executed
              ELSE IF ~MatchesMacroName(command.run)
              THEN command.code = "INVALID_MACRO_NAME" /\ ~command.executed
              ELSE IF command.risk_level = "high" /\ ~command.allow_risky
              THEN command.code = "MACRO_BLOCKED" /\ ~command.executed
              ELSE command.code = "none"

\* a high-risk macro executed under --allow-risky, after the three gates
C25_Witness ==
    /\ command.pc = "done"
    /\ command.executed
    /\ command.passed = <<1, 2, 3>>
    /\ command.risk_level = "high"
    /\ command.allow_risky
    /\ command.suffix = <<".", "X", "L", "S", "M">>

(***************************************************************************)
(* Range-scoped and column-filtered search: search_values with range_spec  *)
(* and columns, adapters/polars_adapter.py, on one sheet.  The value of a  *)
(* match is named by the sheet cell <<row, column index>> it was read from.*)
(***************************************************************************)
SEARCH_FULLLOAD_FILE_SIZE_THRESHOLD == 10 * 1024 * 1024

SearchRaises == [ok |-> FALSE, matches |-> <<>>]

\* use_fullload = file_size_bytes(fpath) >= SEARCH_FULLLOAD_FILE_SIZE_THRESHOLD
UseFullLoad(size) == size >= SEARCH_FULLLOAD_FILE_SIZE_THRESHOLD

\* the full-load-then-slice strategy; headers are the cached row-1 names
FullLoadFrame(sh, range_spec, no_header) ==
    LET loaded == load_sheet(sh, IF no_header THEN NoHeaderRow ELSE 0, 0, NoLimit,
                             AllColumns).df
        row_offset == IF no_header THEN StartRow(range_spec) - 1
                      ELSE StartRow(range_spec) - 2
        n_range_rows == EndRow(range_spec) - StartRow(range_spec) + 1
        lettered == Rename(loaded, Letters(0, Len(loaded.columns) - 1))
        sliced == Slice(lettered, Max(row_offset, 0), n_range_rows)
        col_subset == Filter(Letters(StartCol(range_spec), EndCol(range_spec)),
                             ElementsOf(sliced.columns))
    IN  [ok |-> TRUE,
         df |-> IF col_subset # <<>> THEN Select(sliced, col_subset) ELSE sliced,
         cached |-> ~no_header, headers |-> loaded.columns]

\* the skip-then-read strategy: load_sheet(header_row=None, skip_rows, n_rows,
\* use_columns)
SkipReadFrame(sh, range_spec) ==
    LET n_range_rows == EndRow(range_spec) - StartRow(range_spec) + 1
        loaded == load_sheet(sh, NoHeaderRow, StartRow(range_spec) - 1, n_range_rows,
                             Range(StartCol(range_spec), EndCol(range_spec)))
        base_col == StartCol(range_spec)
    IN  [ok |-> loaded.ok,
         df |-> Rename(loaded.df,
                       Letters(base_col, base_col + Len(loaded.df.columns) - 1)),
         cached |-> FALSE, headers |-> <<>>]

\* the frame searched for a sheet
SearchLoad(sh, range_spec, no_header, size) ==
    IF range_spec # None
    THEN IF UseFullLoad(size) THEN FullLoadFrame(sh, range_spec, no_header)
         ELSE SkipReadFrame(sh, range_spec)
    ELSE [ok |-> TRUE, df |-> SearchFrame(sh, no_header), cached |-> FALSE,
          headers |-> <<>>]

\* col_headers passed to resolve_column_filter
FilterHeaders(sh, load, range_spec, no_header) ==
    IF load.cached THEN load.headers
    ELSE IF range_spec # None \/ no_header THEN SheetHeaders(sh)
    ELSE <<>>

\* search_cols; ok = FALSE: InvalidColumnError
SearchCols(sh, load, columns, range_spec, no_header) ==
    IF columns # None
    THEN resolve_column_filter(columns, load.df.columns,
                               FilterHeaders(sh, load, range_spec, no_header))
    ELSE [ok |-> TRUE, resolved |-> load.df.columns, invalid |-> <<>>]

\* df.columns.index(col)
ColumnIndex(df, col) == (CHOOSE i \in 1..Len(df.columns) : df.columns[i] = col) - 1

\* the match dict of row_idx of column col_idx of df
RangeMatchOf(name, df, col_idx, row_idx, range_spec, no_header) ==
    LET col_letter == IF range_spec # None
                      THEN index_to_col_letter(StartCol(range_spec) + col_idx)
                      ELSE index_to_col_letter(col_idx)
        excel_row == IF range_spec # None THEN StartRow(range_spec) + row_idx
                     ELSE IF no_header THEN row_idx + 1
                     ELSE row_idx + 2
    IN  [sheet |-> name, column |-> col_letter, row |-> excel_row,
         cell |-> col_letter \o IntToDigits(excel_row),
         value |-> <<df.rows[1].first + row_idx, df.cols[col_idx + 1]>>]

\* the matches of one column, in row order
ColumnMatches(sh, name, df, col, range_spec, no_header) ==
    LET col_idx == ColumnIndex(df, col)
        match_indices == MatchIndices(sh, df, col_idx, 0)
    IN  [k \in 1..Len(match_indices) |->
            RangeMatchOf(name, df, col_idx, match_indices[k], range_spec, no_header)]

\* the matches of search_cols, column by column
RECURSIVE PendingMatches(_, _, _, _, _, _)
PendingMatches(sh, name, df, search_cols, range_spec, no_header) ==
    IF search_cols = <<>> THEN <<>>
    ELSE ColumnMatches(sh, name, df, Head(search_cols), range_spec, no_header)
         \o PendingMatches(sh, name, df, Tail(search_cols), range_spec, no_header)

\* matches.append(...), then return once len(matches) >= limit
RECURSIVE Collect(_, _, _)
Collect(matches, pending, limit) ==
    IF pending = <<>> THEN matches
    ELSE IF Len(Append(matches, Head(pending))) >= limit
         THEN Append(matches, Head(pending))
         ELSE Collect(Append(matches, Head(pending)), Tail(pending), limit)

\* the search of a loaded frame
SearchLoaded(sh, name, load, search_cols, args) ==
    IF ~load.ok \/ ~search_cols.ok THEN SearchRaises
    ELSE IF Height(load.df) = 0 THEN [ok |-> TRUE, matches |-> <<>>]
    ELSE [ok |-> TRUE,
          matches |-> Collect(<<>>,
                              PendingMatches(sh, name, load.df, search_cols.resolved,
                                             args.range_spec, args.no_header),
                              args.limit)]

\* the column filter applied to a loaded frame
SearchFiltered(sh, name, load, args) ==
    IF ~load.ok THEN SearchRaises
    ELSE IF Height(load.df) = 0 THEN [ok |-> TRUE, matches |-> <<>>]
    ELSE SearchLoaded(sh, name, load,
                      SearchCols(sh, load, args.columns, args.range_spec,
                                 args.no_header),
                      args)

\* search_values(filepath, query, sheet_name, no_header, columns, limit,
\* range_spec) on the sheet sh
search_values(sh, name, args) ==
    SearchFiltered(sh, name,
                   SearchLoad(sh, args.range_spec, args.no_header, args.size), args)

(***************************************************************************)
(* Range-scoped searches of one sheet, under both load strategies          *)
(***************************************************************************)
MaxRangeRows == 3

RangeSheetWidth == 3

RangeSheets ==
    UNION {[height : {h}, width : {RangeSheetWidth},
            cells : [1..h -> [1..RangeSheetWidth -> BOOLEAN]]] : h \in 1..MaxRangeRows}

RangeSpec(c1, r1, c2, r2) ==
    [ok |-> TRUE, sheet |-> None, start |-> CellRef(c1, r1), end |-> CellRef(c2, r2)]

CellSpec(c, r) == [ok |-> TRUE, sheet |-> None, start |-> CellRef(c, r), end |-> None]

RangeSpecs ==
    {RangeSpec(0, 1, 1, 2), RangeSpec(1, 1, 2, 2), RangeSpec(1, 2, 2, 3),
     RangeSpec(0, 2, 0, 3), CellSpec(2, 1), RangeSpec(1, 2, 3, 3),
     RangeSpec(3, 1, 4, 2), RangeSpec(0, 1, 2, 3)}

ColumnFilters ==
    {None, <<"B">>, <<"A">>, <<"A", ",", "C">>, HeaderName(1)}

SearchSizes ==
    {SEARCH_FULLLOAD_FILE_SIZE_THRESHOLD - 1, SEARCH_FULLLOAD_FILE_SIZE_THRESHOLD}

SearchArgs ==
    [range_spec : RangeSpecs \cup {None}, columns : ColumnFilters,
     no_header : BOOLEAN, size : SearchSizes, limit : {MAX_SEARCH_RESULTS}]

RangeSearch ==
    /\ searcher.pc = "idle"
    /\ \E args \in SearchArgs :
          searcher' = [pc |-> "searched", args |-> args,
                       result |-> search_values(sheet, SheetName(1), args)]
    /\ UNCHANGED <<codec, parser, sheet, reader, loader, book, command, shaper,
                   dates, colfilter>>

InitRangeSearch ==
    /\ codec = CodecIdle /\ parser = ParserIdle /\ reader = ReaderIdle
    /\ loader = LoaderIdle /\ book = <<>> /\ searcher = SearcherIdle
    /\ OthersIdle
    /\ sheet \in RangeSheets

NextRangeSearch == RangeSearch

SpecRangeSearch == InitRangeSearch /\ [][NextRangeSearch]_vars

\* a source size on the other side of the threshold
OtherStrategy(size) ==
    IF UseFullLoad(size) THEN SEARCH_FULLLOAD_FILE_SIZE_THRESHOLD - 1
    ELSE SEARCH_FULLLOAD_FILE_SIZE_THRESHOLD

\* C26: for a range-scoped search, the full-load-then-slice strategy and the
\* skip-then-read strategy return identical match lists for the same sheet,
\* query, range and options: the same cells with the same column letter, row,
\* cell reference and value, in the same order, for every range with start
\* row >= 1, in header and in no-header mode.
C26_StrategiesAgree ==
    (/\ searcher.pc = "searched"
     /\ searcher.args.range_spec # None
     /\ StartRow(searcher.args.range_spec) >= 1) =>
        searcher.result =
            search_values(sheet, SheetName(1),
                          [searcher.args EXCEPT !.size = OtherStrategy(@)])

\* the match designates the sheet cell it was read from, and that cell
\* contains the query
DesignatesItsCell(m) ==
    LET c == col_letter_to_index(m.column)
    IN  /\ m.sheet = SheetName(1)
        /\ m.row \in 1..sheet.height
        /\ c + 1 \in 1..sheet.width
        /\ sheet.cells[m.row][c + 1]
        /\ m.value = <<m.row, c>>
        /\ m.cell = m.column \o IntToDigits(m.row)

\* the cell of the match is inside the range
InsideRange(m, range_spec) ==
    /\ m.row \in StartRow(range_spec)..EndRow(range_spec)
    /\ col_letter_to_index(m.column) \in StartCol(range_spec)..EndCol(range_spec)

\* C28: every match returned by search_values designates the sheet cell that
\* actually matched: the cell at the reported column letter and Excel row
\* holds the reported value and satisfies the query, `cell` is the column
\* letter followed by the row, and for a range-scoped search the cell lies
\* inside the range; in header mode, in no-header mode and in range mode.
C28_MatchesDesignateCells ==
    (searcher.pc = "searched" /\ searcher.result.ok) =>
        \A k \in 1..Len(searcher.result.matches) :
            /\ DesignatesItsCell(searcher.result.matches[k])
            /\ searcher.args.range_spec # None =>
                  InsideRange(searcher.result.matches[k], searcher.args.range_spec)

\* the sheet columns a filter names: a letter names the column with that
\* letter, a header name the column under that header
NamedColumns(columns) ==
    LET refs == Requested(columns)
    IN  {col_letter_to_index(Upper(refs[i])) :
            i \in {j \in 1..Len(refs) : IsAlphaText(refs[j])}}
        \cup {j - 1 : j \in {k \in 1..Len(SheetHeaders(sheet)) :
                                 Member(SheetHeaders(sheet)[k], refs)}}

\* C30: in a search restricted to both a range and a column filter, every
\* returned match lies in a sheet column that the filter names and that is
\* inside the range: a filter letter denotes the sheet column with that
\* letter, whatever the range's starting column, so a different column is
\* never searched in its place.
C30_FilterNamesSheetColumns ==
    (/\ searcher.pc = "searched"
     /\ searcher.args.range_spec # None
     /\ searcher.args.columns # None
     /\ searcher.result.ok) =>
        \A k \in 1..Len(searcher.result.matches) :
            LET m == searcher.result.matches[k]
                allowed == NamedColumns(searcher.args.columns)
                               \cap (StartCol(searcher.args.range_spec)
                                       ..EndCol(searcher.args.range_spec))
            IN  /\ col_letter_to_index(m.column) \in allowed
                /\ m.value[2] \in allowed

(***************************************************************************)
(* Sheets of the entries of a multi-range read                             *)
(***************************************************************************)
\* a finished multi-range read that returned its entries
MultiRangeRead ==
    /\ command.pc = "done"
    /\ command.args.range # None
    /\ Contains(command.args.range, ",")
    /\ ~command.args.all_sheets
    /\ command.out.kind = "multi"

\* C27: in a multi-range read, every result entry is read from, and labelled
\* with, the sheet its own RangeSpec carries.  An entry's data are read from
\* the sheet the entry is labelled with, so the label tells both.
C27_EntriesOnOwnSheets ==
    MultiRangeRead =>
        LET specs == ParsedRanges(command.args).specs
            entries == command.out.result.results
        IN  /\ Len(entries) = Len(specs)
            /\ \A i \in 1..Len(specs) :
                  specs[i].sheet # None => entries[i].sheet = specs[i].sheet

(***************************************************************************)
(* Date conversion of a range read: commands/read.py lines 278-330 and     *)
(* _apply_date_conversion.  A sheet here also tells the value its data     *)
(* rows hold in each column and the columns whose row-2 cell carries a     *)
(* date number format.                                                     *)
(***************************************************************************)
\* an empty cell, None in a row
NullCell == [kind |-> "null"]

\* the value the block holds for Excel row r and 0-based sheet column c: row 1
\* is the header text
CellAt(sh, r, c) ==
    IF r = 1 THEN TextCell
    ELSE IF <<r, c + 1>> \in sh.nulls THEN NullCell
    ELSE sh.values[c + 1]

\* the Excel rows of a frame, in order
RECURSIVE ExcelRows(_)
ExcelRows(spans) ==
    IF spans = <<>> THEN <<>>
    ELSE [k \in 1..Head(spans).n |-> Head(spans).first + k - 1]
         \o ExcelRows(Tail(spans))

\* _df_to_serialisable_rows: one list per row, one value per column of df
_df_to_serialisable_rows(sh, df) ==
    LET excel_rows == ExcelRows(df.rows)
    IN  [r \in 1..Len(excel_rows) |->
            [i \in 1..Len(df.cols) |-> CellAt(sh, excel_rows[r], df.cols[i])]]

\* detect_date_column_indices: the 0-based sheet columns whose row-2 cell has
\* a date number format; none for a sheet of fewer than two rows
detect_date_column_indices(sh) ==
    IF sh.height < 2 THEN Detected({}) ELSE Detected(sh.date_cols)

DateSheetHeight == 3

DateSheetWidth == 3

DateSheets ==
    {[height |-> DateSheetHeight, width |-> DateSheetWidth,
      nulls |-> (2..DateSheetHeight) \X empty,
      values |-> values, date_cols |-> date_cols] :
        empty \in SUBSET (1..DateSheetWidth),
        values \in [1..DateSheetWidth -> {Number(Serial(45000, 0)), TextCell}],
        date_cols \in SUBSET (0..(DateSheetWidth - 1))}

DateRanges ==
    {[ok |-> TRUE, sheet |-> None, start |-> CellRef(c1, r1),
      end |-> CellRef(c2, DateSheetHeight)] :
        <<c1, c2, r1>> \in
            {q \in (0..(DateSheetWidth - 1)) \X (0..(DateSheetWidth - 1)) \X (1..2) :
                q[1] <= q[2]}}

\* the single-range path of read: the block of the range, compacted, its rows
\* made serialisable and then passed through the date conversion
ReadRangeDates ==
    /\ dates.op = "none"
    /\ \E range_info \in DateRanges, compact \in BOOLEAN :
          /\ _read_single_range(sheet, range_info).ok
          /\ dates' =
               [op |-> "read_range", range |-> range_info, compact |-> compact,
                df |-> apply_compact(sheet, _read_single_range(sheet, range_info).df,
                                     compact),
                rows |-> _df_to_serialisable_rows(sheet,
                            apply_compact(sheet,
                                _read_single_range(sheet, range_info).df, compact)),
                detected |-> detect_date_column_indices(sheet),
                result |-> _apply_date_conversion(
                              _df_to_serialisable_rows(sheet,
                                  apply_compact(sheet,
                                      _read_single_range(sheet, range_info).df,
                                      compact)),
                              detect_date_column_indices(sheet))]
    /\ UNCHANGED <<codec, parser, sheet, reader, loader, book, searcher, command,
                   shaper, colfilter>>

InitReadDates ==
    /\ codec = CodecIdle /\ parser = ParserIdle /\ reader = ReaderIdle
    /\ sheet \in DateSheets
    /\ loader = LoaderIdle /\ book = <<>>
    /\ searcher = SearcherIdle /\ command = CommandIdle /\ shaper = ShaperIdle
    /\ colfilter = FilterIdle
    /\ dates = DatesIdle

NextReadDates == ReadRangeDates

SpecReadDates == InitReadDates /\ [][NextReadDates]_vars

\* a range read whose rows went through the date conversion
ReadRangeDone == dates.op = "read_range"

\* C29: the date conversion of read rewrites only values that come from sheet
\* columns classified as date-like, whatever the range's starting column and
\* whichever columns compaction removed: a value of the output that differs
\* from the value read lies in a block column whose sheet column is among the
\* detected date columns.
C29_OnlyDateColumnsRewritten ==
    ReadRangeDone =>
        \A r \in 1..Len(dates.rows) :
            \A i \in 1..Len(dates.rows[r]) :
                dates.result.rows[r][i] # dates.rows[r][i]
                    => dates.df.cols[i] \in dates.detected.indices

====
